---- MODULE Spec2Model ----
(***************************************************************************)
(* Voice-note relay of the voicecare backend: the ConnectionManager, the   *)
(* per-connection event loop handle_websocket, handle_join_message,        *)
(* handle_voice_note_message, the fire-and-forget PersistenceWorker tasks, *)
(* the MessageCRUD updates and the translation services.                   *)
(*                                                                         *)
(* One asyncio event loop runs everything: an action of the model is the   *)
(* code a coroutine runs between two suspension points (await).            *)
(***************************************************************************)
EXTENDS Integers, Sequences, FiniteSets, TLC

\* ---------------------------------------------------------------- bounds
MaxMessages == 1
MaxEvents == 3

\* ------------------------------------------------------------ static data
\* connection ids (uuid4 strings in main.py); NoConn is a failed dict lookup
Conns == {"c1", "c2"}
NoConn == ""
\* the connections whose client submits voice notes and other events; the rest only join
NoteConns == {"c1"}

\* Optional[...] values: None is the empty sequence, a value x is <<x>>.
None == << >>
Some(x) == << x >>

\* rows of the user table (db/seed.py shape: gender and preferred_voice)
Users == {"A", "B", "C"}
UserGender == [u \in Users |-> IF u = "A" THEN Some("female") ELSE None]
UserVoice == [u \in Users |-> IF u = "A" THEN Some("Valentina") ELSE IF u = "B" THEN Some("Clyde") ELSE None]
JoinIds == {"A", "B", "ghost"}

\* rows of the conversation table; user_a # user_b (routes_conversations.py:51)
Conversations == [conv1 |-> [user_a_id |-> "A", user_b_id |-> "B"]]
ConversationIds == {"conv1", "nope"}

MessageStatus == {"sent", "delivered", "played", "failed"}

\* voice_note events a client can submit
VoiceNote(conv, sender, target, text, ok) == [conversation_id |-> conv, sender_id |-> sender, source_lang |-> "es", target_lang |-> target, text_source |-> text, well_formed |-> ok]
Events == {VoiceNote("conv1", "A", "en", "hola", TRUE), VoiceNote("conv1", "A", "es", "hola", TRUE), VoiceNote("nope", "A", "en", "hola", TRUE), VoiceNote("conv1", "C", "en", "hola", TRUE), VoiceNote("conv1", "A", "en", "", TRUE), VoiceNote("conv1", "A", "en", "hola", FALSE)}
NoEvent == [conversation_id |-> "", sender_id |-> "", source_lang |-> "", target_lang |-> "", text_source |-> "", well_formed |-> FALSE]

\* what the external translation engine does on one call
ProviderOutcomes == {"ok", "empty", "raise"}

VARIABLES events_received, active_connections, user_connections, sock_ok, pc, current_user_id, loc, messages, ttfa_metrics, translation_times, tasks, wire, settings, last_call, stt, tts, tts_calls, metrics_service

vars == <<events_received, active_connections, user_connections, sock_ok, pc, current_user_id, loc, messages, ttfa_metrics, translation_times, tasks, wire, settings, last_call, stt, tts, tts_calls, metrics_service>>

\* ------------------------------------------------------ ConnectionManager
\* a lookup that falls back to the first binding of the map when the user has none
get_connection_first_bound(uc, user_id) ==
  IF \E i \in 1..Len(uc) : uc[i][1] = user_id
  THEN uc[CHOOSE i \in 1..Len(uc) : uc[i][1] = user_id][2]
  ELSE IF uc # << >> THEN uc[1][2] ELSE ""

\* user_connections.get(user_id): the dict is kept as its insertion-ordered item list
get_connection(uc, user_id) ==
  IF \E i \in 1..Len(uc) : uc[i][1] = user_id
  THEN uc[CHOOSE i \in 1..Len(uc) : uc[i][1] = user_id][2]
  ELSE NoConn

BoundUsers(uc, k) == {uc[i][1] : i \in {j \in 1..Len(uc) : uc[j][2] = k}}

InActive(ac, k) == \E i \in 1..Len(ac) : ac[i] = k

\* a registration that keeps an existing binding (first join wins)
register_user_keep_first(uc, user_id, k) ==
  IF \E i \in 1..Len(uc) : uc[i][1] = user_id THEN uc ELSE Append(uc, <<user_id, k>>)

\* register_user: dict assignment keeps the position of an existing key
register_user(uc, user_id, k) ==
  IF \E i \in 1..Len(uc) : uc[i][1] = user_id
  THEN [i \in 1..Len(uc) |-> IF uc[i][1] = user_id THEN <<user_id, k>> ELSE uc[i]]
  ELSE Append(uc, <<user_id, k>>)

RemoveAt(s, i) == [j \in 1..(Len(s) - 1) |-> IF j < i THEN s[j] ELSE s[j + 1]]

\* disconnect, first half: del active_connections[connection_id] if present
disconnect_active(ac, k) == SelectSeq(ac, LAMBDA x : x # k)

\* a disconnect that forgets every binding
disconnect_users_clear(uc, k) == << >>

\* disconnect, second half: the loop stops at the first user mapped to the id
disconnect_users(uc, k) ==
  IF \E i \in 1..Len(uc) : uc[i][2] = k
  THEN RemoveAt(uc, CHOOSE i \in 1..Len(uc) : uc[i][2] = k /\ \A j \in 1..(i - 1) : uc[j][2] # k)
  ELSE uc

\* ------------------------------------------------------------- settings
\* Settings.translation_provider_effective (the second, overriding property)
translation_provider_effective(cfg) ==
  IF cfg.translation_provider \in {"openai", "libre"} THEN cfg.translation_provider
  ELSE IF cfg.stt_provider = "openai" \/ cfg.tts_provider = "openai" THEN "openai"
  ELSE "libre"

\* the configurations explored: libre, openai with a client, openai without an API key
Settings == {[translation_provider |-> "auto", stt_provider |-> "elevenlabs", tts_provider |-> "elevenlabs", openai_client |-> FALSE], [translation_provider |-> "auto", stt_provider |-> "openai", tts_provider |-> "elevenlabs", openai_client |-> TRUE], [translation_provider |-> "openai", stt_provider |-> "elevenlabs", tts_provider |-> "elevenlabs", openai_client |-> FALSE]}

\* -------------------------------------------------- translation services
\* the engines' raw replies for the texts of Events
GoogleReply(text, target_code, o) ==
  IF o = "ok" THEN (IF target_code = "en" THEN "hello" ELSE text) ELSE ""

OpenAIReply(text, target_lang, o) ==
  IF o = "ok" THEN (IF target_lang = "en" THEN "hello\n" ELSE text) ELSE "  "

\* str.strip() on the replies above
Strip(t) == IF t = "hello\n" THEN "hello" ELSE IF t = "  " THEN "" ELSE t

\* TranslationService._normalize_lang_code: the lang_map entries, else the base language
normalize_lang_code(lang) ==
  IF lang \in {"en-US", "en-GB"} THEN "en"
  ELSE IF lang \in {"es-ES", "es-MX"} THEN "es"
  ELSE lang

\* TranslationService._fallback_translate
fallback_translate(text, target_code) ==
  IF target_code = "es" THEN <<"[Traducido] ", text>>
  ELSE IF target_code = "en" THEN <<"[Translated] ", text>>
  ELSE <<"[", target_code, "] ", text>>

\* texts are kept as lists of fragments: a plain string s is <<s>>
Plain(s) == << s >>

\* TranslationService.translate: [text, raised, called]; called = the engine was invoked
libre_translate(text, source_lang, target_lang, o) ==
  IF source_lang = target_lang THEN [text |-> Plain(text), raised |-> FALSE, called |-> FALSE]
  ELSE LET target_code == normalize_lang_code(target_lang)
           result == IF o = "raise" THEN "" ELSE GoogleReply(text, target_code, o)
       IN IF result # "" THEN [text |-> Plain(result), raised |-> FALSE, called |-> TRUE]
          ELSE [text |-> fallback_translate(text, target_code), raised |-> FALSE, called |-> TRUE]

\* OpenAITranslationService.translate without its try/except
openai_translate_unguarded(text, source_lang, target_lang, has_client, o) ==
  IF ~has_client THEN [text |-> Plain(text), raised |-> FALSE, called |-> FALSE]
  ELSE IF o = "raise" THEN [text |-> Plain(text), raised |-> TRUE, called |-> TRUE]
  ELSE [text |-> Plain(Strip(OpenAIReply(text, target_lang, o))), raised |-> FALSE, called |-> TRUE]

\* OpenAITranslationService.translate
openai_translate(text, source_lang, target_lang, has_client, o) ==
  IF ~has_client THEN [text |-> Plain(text), raised |-> FALSE, called |-> FALSE]
  ELSE IF o = "raise" THEN [text |-> Plain(text), raised |-> FALSE, called |-> TRUE]
  ELSE [text |-> Plain(Strip(OpenAIReply(text, target_lang, o))), raised |-> FALSE, called |-> TRUE]

\* libre suspends (run_in_executor) exactly when it calls the engine
libre_suspends(source_lang, target_lang) == source_lang # target_lang

\* ------------------------------------------------------------ MessageCRUD
\* MessageCRUD.create: the new row, id = position in the table
create(msgs, ev) ==
  Append(msgs, [id |-> Len(msgs) + 1, conversation_id |-> ev.conversation_id, sender_id |-> ev.sender_id, source_lang |-> ev.source_lang, target_lang |-> ev.target_lang, text_source |-> ev.text_source, text_translated |-> None, status |-> "sent", ttfa_ms |-> None])

\* a write-back that is dropped once the status has left "sent"
update_translation_if_sent(msgs, message_id, translated_text) ==
  IF message_id \in 1..Len(msgs) /\ msgs[message_id].status = "sent"
  THEN [messages |-> [msgs EXCEPT ![message_id].text_translated = Some(translated_text)], result |-> "message"]
  ELSE [messages |-> msgs, result |-> "none"]

\* MessageCRUD.update_translation
update_translation(msgs, message_id, translated_text) ==
  IF message_id \in 1..Len(msgs)
  THEN [messages |-> [msgs EXCEPT ![message_id].text_translated = Some(translated_text)], result |-> "message"]
  ELSE [messages |-> msgs, result |-> "none"]

\* update_status behind a transition table that has no self edges
update_status_strict_table(msgs, message_id, status, ttfa_ms) ==
  IF message_id \in 1..Len(msgs)
  THEN IF <<msgs[message_id].status, status>> \in {<<"sent", "delivered">>, <<"delivered", "played">>, <<"sent", "failed">>, <<"delivered", "failed">>}
       THEN [messages |-> [msgs EXCEPT ![message_id].status = status, ![message_id].ttfa_ms = IF ttfa_ms # None THEN ttfa_ms ELSE @], result |-> "message"]
       ELSE [messages |-> msgs, result |-> "rejected"]
  ELSE [messages |-> msgs, result |-> "none"]

\* MessageCRUD.update_status; ttfa_ms is None or Some(n)
update_status(msgs, message_id, status, ttfa_ms) ==
  IF message_id \in 1..Len(msgs)
  THEN [messages |-> [msgs EXCEPT ![message_id].status = status, ![message_id].ttfa_ms = IF ttfa_ms # None THEN ttfa_ms ELSE @], result |-> "message"]
  ELSE [messages |-> msgs, result |-> "none"]

\* --------------------------------------------------------- MetricsService
\* timestamps are kept as None / Some("t"): set or not set
\* a relay that creates the message without opening a metric for it
start_ttfa_tracking_untracked(metrics, message_id, sender_id, recipient_id, source_lang, target_lang) == metrics

start_ttfa_tracking(metrics, message_id, sender_id, recipient_id, source_lang, target_lang) ==
  [i \in DOMAIN metrics \cup {message_id} |->
     IF i = message_id
     THEN [message_id |-> message_id, sender_id |-> sender_id, recipient_id |-> recipient_id, source_lang |-> source_lang, target_lang |-> target_lang, translation_completed_at |-> None, ws_sent_at |-> None, client_played_at |-> None, ttfa_ms |-> None]
     ELSE metrics[i]]

record_translation_completed(metrics, message_id) ==
  IF message_id \in DOMAIN metrics THEN [metrics EXCEPT ![message_id].translation_completed_at = Some("t")] ELSE metrics

\* a handler that does not stamp ws_sent_at before it dispatches
record_ws_sent_skipped(metrics, message_id) == metrics

record_ws_sent(metrics, message_id) ==
  IF message_id \in DOMAIN metrics THEN [metrics EXCEPT ![message_id].ws_sent_at = Some("t")] ELSE metrics

\* ------------------------------------------- handle_voice_note_message
\* WSVoiceNoteMessage.model_validate: every field present and typed
ws_voice_note_valid(ev) == ev.well_formed

\* conversation_crud.get_by_id
get_conversation(conversation_id) ==
  IF conversation_id \in DOMAIN Conversations THEN Some(Conversations[conversation_id]) ELSE None

\* the recipient branch without its final else: any sender is accepted
determine_recipient_any_sender(conversation, sender_id) ==
  IF conversation.user_a_id = sender_id THEN [raised |-> FALSE, recipient_id |-> conversation.user_b_id]
  ELSE [raised |-> FALSE, recipient_id |-> conversation.user_a_id]

\* the recipient branch: [raised, recipient_id]
determine_recipient(conversation, sender_id) ==
  IF conversation.user_a_id = sender_id THEN [raised |-> FALSE, recipient_id |-> conversation.user_b_id]
  ELSE IF conversation.user_b_id = sender_id THEN [raised |-> FALSE, recipient_id |-> conversation.user_a_id]
  ELSE [raised |-> TRUE, recipient_id |-> ""]

StrLen(s) == IF s = "" THEN 0 ELSE IF s \in {"es", "en"} THEN 2 ELSE 4

\* MessageCreate(...): Field(min_length=2, max_length=5) on the languages, min_length=1 on the text
message_create_valid(ev) ==
  /\ StrLen(ev.source_lang) >= 2 /\ StrLen(ev.source_lang) <= 5
  /\ StrLen(ev.target_lang) >= 2 /\ StrLen(ev.target_lang) <= 5
  /\ StrLen(ev.text_source) >= 1

\* the validation part of the handler up to (not including) message_crud.create
validate_voice_note(ev) ==
  LET conversation == get_conversation(ev.conversation_id)
  IN IF conversation = None THEN [raised |-> TRUE, recipient_id |-> ""]
     ELSE LET r == determine_recipient(conversation[1], ev.sender_id)
          IN IF r.raised THEN r
             ELSE IF ~message_create_valid(ev) THEN [raised |-> TRUE, recipient_id |-> ""]
             ELSE r

\* the voice-name gender hint of lines 252-261, on the voices of the user table
sender_gender_of(u) ==
  IF UserGender[u] # None THEN UserGender[u]
  ELSE IF UserVoice[u] = None THEN None
  ELSE IF UserVoice[u][1] \in {"Clyde"} THEN Some("male")
  ELSE IF UserVoice[u][1] \in {"Rachel", "Valentina"} THEN Some("female")
  ELSE None

\* MessageResponse.model_validate(fresh_message) with text_translated overridden
message_response(row, text_translated) ==
  [id |-> row.id, conversation_id |-> row.conversation_id, sender_id |-> row.sender_id, text_source |-> row.text_source, text_translated |-> text_translated, status |-> row.status, ttfa_ms |-> row.ttfa_ms]

play_now_of(ev, translated_text) ==
  [lang |-> ev.target_lang, text |-> translated_text, sender_gender |-> sender_gender_of(ev.sender_id), sender_id |-> ev.sender_id]

recipient_ws_response(row, ev, translated_text) ==
  [type |-> "message", message |-> message_response(row, Some(translated_text)), play_now |-> Some(play_now_of(ev, translated_text))]

\* the sender view built like the recipient view
sender_ws_response_with_play_now(row, ev, translated_text) ==
  [type |-> "message", message |-> message_response(row, None), play_now |-> Some(play_now_of(ev, translated_text))]

sender_ws_response(row, ev, translated_text) ==
  [type |-> "message", message |-> message_response(row, None), play_now |-> None]

\* the status task scheduled without looking at sent_to_recipient
status_tasks_always_delivered(message_id, sent_to_recipient) ==
  {[kind |-> "status", message_id |-> message_id, status |-> "delivered", text |-> None]}

\* the SENT task scheduled unconditionally (an if without its else)
status_tasks_sent_too(message_id, sent_to_recipient) ==
  {[kind |-> "status", message_id |-> message_id, status |-> "sent", text |-> None]} \cup (IF sent_to_recipient THEN {[kind |-> "status", message_id |-> message_id, status |-> "delivered", text |-> None]} ELSE {})

\* an undelivered note marked FAILED instead of being left SENT
status_tasks_failed_when_offline(message_id, sent_to_recipient) ==
  IF sent_to_recipient THEN {[kind |-> "status", message_id |-> message_id, status |-> "delivered", text |-> None]}
  ELSE {[kind |-> "status", message_id |-> message_id, status |-> "failed", text |-> None]}

\* the background status task(s) scheduled after the two sends
status_tasks(message_id, sent_to_recipient) ==
  IF sent_to_recipient THEN {[kind |-> "status", message_id |-> message_id, status |-> "delivered", text |-> None]}
  ELSE {[kind |-> "status", message_id |-> message_id, status |-> "sent", text |-> None]}

translation_task(message_id, translated_text) ==
  [kind |-> "translation", message_id |-> message_id, status |-> "", text |-> Some(translated_text)]

\* ------------------------------------------------------------------ state
\* locals of the handler a connection is running; effects, calls and reported
\* record what this run has done so far (history, cleared when the run returns)
NoLoc == [ev |-> NoEvent, join_user |-> "", mid |-> 0, recipient_id |-> "", translated_text |-> None, target |-> NoConn, recipient_ws_response |-> None, sender_ws_response |-> None, sent_to_recipient |-> FALSE, bc_todo |-> << >>, bc_then |-> "", bc_start |-> << >>, bc_sent |-> {}, bc_failed |-> {}, bc_superseded |-> NoConn, wire_mark |-> 0, effects |-> {}, calls |-> {}]

\* the latest direct call of a MessageCRUD update: its arguments, what it returned,
\* the row before it, and whether the call before it was the same call
NoCall == [op |-> "", message_id |-> 0, status |-> "", ttfa_ms |-> None, text |-> None, result |-> "", before |-> None, repeat |-> FALSE, prev_result |-> ""]

\* the text-to-speech route before its first request; users is the tts_gender column of the user rows
NoTts == [pc |-> "idle", n |-> 0, users |-> [u \in Users |-> None], sender_id |-> None, sender_gender |-> None, service |-> "", assigned |-> None, gender_log |-> << >>, response |-> None]

\* the synthesize calls in flight at once, and the users.tts_gender column their sessions share
TtsCallIds == {1, 2}
NoTtsCalls == [users |-> [u \in Users |-> None], call |-> [k \in TtsCallIds |-> NoTts]]

\* MetricsService.__init__, with the clock datetime.utcnow() reads (milliseconds) and the value the last call returned
MetricsService == [ttfa_metrics |-> << >>, translation_times |-> << >>, utcnow |-> 0, returned |-> None]

\* one POST /transcribe request before it is received
NoStt == [pc |-> "idle", size |-> 0, language |-> None, provider |-> "", stage |-> "", invoked |-> << >>, results |-> << >>, response |-> None]

Init ==
  /\ events_received = 0
  /\ active_connections = << >>
  /\ user_connections = << >>
  /\ sock_ok = [c \in Conns |-> TRUE]
  /\ pc = [c \in Conns |-> "new"]
  /\ current_user_id = [c \in Conns |-> None]
  /\ loc = [c \in Conns |-> NoLoc]
  /\ messages = << >>
  /\ ttfa_metrics = << >>
  /\ translation_times = 0
  /\ tasks = {}
  /\ wire = [c \in Conns |-> << >>]
  /\ settings \in Settings
  /\ last_call = NoCall
  /\ stt = NoStt
  /\ tts = NoTts
  /\ tts_calls = NoTtsCalls
  /\ metrics_service = MetricsService

mgrVars == <<active_connections, user_connections>>
storeVars == <<messages, tasks>>
metricVars == <<ttfa_metrics, translation_times>>

\* --------------------------------------------------- broadcast_presence
\* the loop skips (without suspending) the ids that are no longer live
RECURSIVE BcAdvance(_, _)
BcAdvance(ac, todo) ==
  IF todo = << >> THEN << >>
  ELSE IF InActive(ac, Head(todo)) THEN todo
  ELSE BcAdvance(ac, Tail(todo))

\* broadcast_presence entered by handler c with manager state (ac, uc);
\* then = where the handler goes when the broadcast returns; superseded = the other
\* connection the joining user was bound to before this join (NoConn if none)
StartBroadcast(c, ac, uc, then, superseded) ==
  /\ active_connections' = ac
  /\ user_connections' = uc
  /\ IF ac = << >>
     THEN /\ pc' = [pc EXCEPT ![c] = then]
          /\ loc' = [loc EXCEPT ![c] = NoLoc]
     ELSE /\ pc' = [pc EXCEPT ![c] = "bc"]
          /\ loc' = [loc EXCEPT ![c] = [NoLoc EXCEPT !.bc_todo = ac, !.bc_then = then, !.bc_start = ac, !.bc_superseded = superseded]]

\* a write to connection k succeeds while the peer is there and the endpoint has not returned
WriteOk(k) == sock_ok[k] /\ pc[k] # "closed"

\* as if the exception of a failed write left the loop
bc_after_write_abort(ok, ac, todo) == IF ok THEN BcAdvance(ac, Tail(todo)) ELSE << >>

\* what is left of the loop once the write to Head(todo) returned (ok) or raised
bc_after_write(ok, ac, todo) == BcAdvance(ac, Tail(todo))

\* one websocket.send_text of the broadcast loop returns or raises
BroadcastWriteDone(c) ==
  /\ pc[c] = "bc"
  /\ LET k == Head(loc[c].bc_todo)
         ac == IF WriteOk(k) THEN active_connections ELSE disconnect_active(active_connections, k)
         uc == IF WriteOk(k) THEN user_connections ELSE disconnect_users(user_connections, k)
         rest == bc_after_write(WriteOk(k), ac, loc[c].bc_todo)
     IN /\ active_connections' = ac
        /\ user_connections' = uc
        /\ IF rest = << >>
           THEN /\ pc' = [pc EXCEPT ![c] = loc[c].bc_then]
                /\ loc' = [loc EXCEPT ![c] = NoLoc]
           ELSE /\ pc' = pc
                /\ loc' = [loc EXCEPT ![c].bc_todo = rest, ![c].bc_sent = IF WriteOk(k) THEN @ \cup {k} ELSE @, ![c].bc_failed = IF WriteOk(k) THEN @ ELSE @ \cup {k}]
  /\ UNCHANGED <<events_received, sock_ok, current_user_id, storeVars, metricVars, wire, settings, last_call, stt, tts, tts_calls, metrics_service>>

\* ------------------------------------------------------ handle_websocket
\* the finally block: manager.disconnect, then a broadcast if the connection ever joined
Finally(c) ==
  LET ac == disconnect_active(active_connections, c)
      uc == disconnect_users(user_connections, c)
  IN IF current_user_id[c] # None
     THEN StartBroadcast(c, ac, uc, "closed", NoConn)
     ELSE /\ active_connections' = ac
          /\ user_connections' = uc
          /\ pc' = [pc EXCEPT ![c] = "closed"]
          /\ loc' = [loc EXCEPT ![c] = NoLoc]

\* manager.connect: accept, then register the session
Connect(c) ==
  /\ pc[c] = "new"
  /\ sock_ok[c]
  /\ active_connections' = Append(active_connections, c)
  /\ pc' = [pc EXCEPT ![c] = "recv"]
  /\ UNCHANGED <<events_received, user_connections, sock_ok, current_user_id, loc, storeVars, metricVars, wire, settings, last_call, stt, tts, tts_calls, metrics_service>>

\* websocket.accept() raises: the handler ends before its try block
ConnectFail(c) ==
  /\ pc[c] = "new"
  /\ ~sock_ok[c]
  /\ pc' = [pc EXCEPT ![c] = "closed"]
  /\ UNCHANGED <<events_received, mgrVars, sock_ok, current_user_id, loc, storeVars, metricVars, wire, settings, last_call, stt, tts, tts_calls, metrics_service>>

\* the peer goes away: later writes to c raise, receive_text raises WebSocketDisconnect
ClientClose(c) ==
  /\ pc[c] # "closed"
  /\ sock_ok[c]
  /\ sock_ok' = [sock_ok EXCEPT ![c] = FALSE]
  /\ UNCHANGED <<events_received, mgrVars, pc, current_user_id, loc, storeVars, metricVars, wire, settings, last_call, stt, tts, tts_calls, metrics_service>>

\* receive_text raises WebSocketDisconnect
RecvDisconnect(c) ==
  /\ pc[c] = "recv"
  /\ ~sock_ok[c]
  /\ Finally(c)
  /\ UNCHANGED <<events_received, sock_ok, current_user_id, storeVars, metricVars, wire, settings, last_call, stt, tts, tts_calls, metrics_service>>

\* a "join" event: handle_join_message verifies the user, registers it and the
\* presence broadcast starts; an unknown user raises ValueError, which ends the loop
RecvJoin(c, u) ==
  /\ pc[c] = "recv"
  /\ events_received < MaxEvents
  /\ events_received' = events_received + 1
  /\ IF u \in Users
     THEN /\ current_user_id' = [current_user_id EXCEPT ![c] = Some(u)]
          /\ StartBroadcast(c, active_connections, register_user(user_connections, u, c), "recv", IF get_connection(user_connections, u) = c THEN NoConn ELSE get_connection(user_connections, u))
     ELSE /\ current_user_id' = current_user_id
          /\ Finally(c)
  /\ UNCHANGED <<sock_ok, storeVars, metricVars, wire, settings, last_call, stt, tts, tts_calls, metrics_service>>

\* an event of unknown type or invalid JSON: an error payload is written to the socket
RecvOther(c) ==
  /\ pc[c] = "recv"
  /\ events_received < MaxEvents
  /\ events_received' = events_received + 1
  /\ pc' = [pc EXCEPT ![c] = "err_send"]
  /\ UNCHANGED <<mgrVars, sock_ok, current_user_id, loc, storeVars, metricVars, wire, settings, last_call, stt, tts, tts_calls, metrics_service>>

\* WSErrorResponse(...).model_dump() as it is written to the socket
error_ws_response == [type |-> "error", message |-> None, play_now |-> None]

\* that write returns (the error is reported) or raises (the loop ends)
ErrSendDone(c) ==
  /\ pc[c] = "err_send"
  /\ IF WriteOk(c)
     THEN /\ pc' = [pc EXCEPT ![c] = "recv"]
          /\ wire' = [wire EXCEPT ![c] = Append(@, [to_user |-> "", sender_bound |-> NoConn, payload |-> error_ws_response])]
          /\ UNCHANGED <<mgrVars, loc>>
     ELSE /\ wire' = wire
          /\ Finally(c)
  /\ UNCHANGED <<events_received, sock_ok, current_user_id, storeVars, metricVars, settings, last_call, stt, tts, tts_calls, metrics_service>>

\* -------------------------------------- handle_voice_note_message, steps
InFlightCreates == Cardinality({d \in Conns : pc[d] = "vn_create"})

\* a handler without its except clause: the exception ends the connection's loop
Leave_uncaught(c, L, how) ==
  /\ pc' = [pc EXCEPT ![c] = IF how \in {"vn_rejected", "vn_failed"} THEN "closed" ELSE how]
  /\ loc' = [loc EXCEPT ![c] = L]

\* the handler's except clause (how = "vn_rejected", "vn_failed") or its end ("vn_done")
Leave(c, L, how) ==
  /\ pc' = [pc EXCEPT ![c] = how]
  /\ loc' = [loc EXCEPT ![c] = L]

\* the handler returns to the loop of handle_websocket, which awaits the next event
Return(c) ==
  /\ pc[c] \in {"vn_rejected", "vn_failed", "vn_done"}
  /\ pc' = [pc EXCEPT ![c] = "recv"]
  /\ loc' = [loc EXCEPT ![c] = NoLoc]
  /\ UNCHANGED <<events_received, mgrVars, sock_ok, current_user_id, storeVars, metricVars, wire, settings, last_call, stt, tts, tts_calls, metrics_service>>

\* the end of the handler: the status task is scheduled from sent_to_recipient
Finish(c, L, sent_to_recipient) ==
  /\ tasks' = tasks \cup status_tasks(L.mid, sent_to_recipient)
  /\ Leave(c, [L EXCEPT !.sent_to_recipient = sent_to_recipient, !.target = NoConn], "vn_done")

\* a handler that counts the note as undelivered when the sender has no live session
SenderStage_gating_status(c, L, sent_to_recipient, ac, uc) ==
  LET ks == get_connection(uc, L.ev.sender_id)
      L2 == [L EXCEPT !.calls = @ \cup {[role |-> "sender", user_id |-> L.ev.sender_id, payload |-> L.sender_ws_response[1]]}]
  IN /\ active_connections' = ac
     /\ user_connections' = uc
     /\ IF ks = NoConn \/ ~InActive(ac, ks)
        THEN Finish(c, L2, FALSE)
        ELSE /\ pc' = [pc EXCEPT ![c] = "vn_send_sndr"]
             /\ loc' = [loc EXCEPT ![c] = [L2 EXCEPT !.target = ks, !.sent_to_recipient = sent_to_recipient]]
             /\ tasks' = tasks

\* send_to_user(sender_id, ...) up to its first suspension, with manager state (ac, uc)
SenderStage(c, L, sent_to_recipient, ac, uc) ==
  LET ks == get_connection(uc, L.ev.sender_id)
      L2 == [L EXCEPT !.calls = @ \cup {[role |-> "sender", user_id |-> L.ev.sender_id, payload |-> L.sender_ws_response[1]]}]
  IN /\ active_connections' = ac
     /\ user_connections' = uc
     /\ IF ks = NoConn \/ ~InActive(ac, ks)
        THEN Finish(c, L2, sent_to_recipient)
        ELSE /\ pc' = [pc EXCEPT ![c] = "vn_send_sndr"]
             /\ loc' = [loc EXCEPT ![c] = [L2 EXCEPT !.target = ks, !.sent_to_recipient = sent_to_recipient]]
             /\ tasks' = tasks

\* a loop that reads the next event while the handler of the previous one is still sending
can_receive_while_dispatching(p) == p \in {"recv", "vn_send_rcpt", "vn_send_sndr"}

\* the loop of handle_websocket awaits the handler before it calls receive_text again
can_receive(p) == p = "recv"

\* a loop that takes a voice note only from the connection its sender joined on
RecvVoiceNoteUpTo_sender_joined(c, ev, max_messages) ==
  /\ can_receive(pc[c])
  /\ events_received < MaxEvents
  /\ events_received' = events_received + 1
  /\ LET L == [NoLoc EXCEPT !.ev = ev, !.wire_mark = Len(wire[c])]
     IN IF ~ws_voice_note_valid(ev) \/ current_user_id[c] # Some(ev.sender_id)
        THEN Leave(c, L, "vn_rejected")
        ELSE LET r == validate_voice_note(ev)
             IN IF r.raised
                THEN Leave(c, L, "vn_rejected")
                ELSE /\ Len(messages) + InFlightCreates < max_messages
                     /\ Leave(c, [L EXCEPT !.recipient_id = r.recipient_id], "vn_create")
  /\ UNCHANGED <<mgrVars, sock_ok, current_user_id, storeVars, metricVars, wire, settings, last_call, stt, tts, tts_calls, metrics_service>>

\* a "voice_note" event: model_validate, conversation lookup, recipient, MessageCreate:
\* rejected by the except clause, or on to message_crud.create; max_messages caps the table
RecvVoiceNoteUpTo(c, ev, max_messages) ==
  /\ can_receive(pc[c])
  /\ events_received < MaxEvents
  /\ events_received' = events_received + 1
  /\ LET L == [NoLoc EXCEPT !.ev = ev, !.wire_mark = Len(wire[c])]
     IN IF ~ws_voice_note_valid(ev)
        THEN Leave(c, L, "vn_rejected")
        ELSE LET r == validate_voice_note(ev)
             IN IF r.raised
                THEN Leave(c, L, "vn_rejected")
                ELSE /\ Len(messages) + InFlightCreates < max_messages
                     /\ Leave(c, [L EXCEPT !.recipient_id = r.recipient_id], "vn_create")
  /\ UNCHANGED <<mgrVars, sock_ok, current_user_id, storeVars, metricVars, wire, settings, last_call, stt, tts, tts_calls, metrics_service>>

RecvVoiceNote(c, ev) == RecvVoiceNoteUpTo(c, ev, MaxMessages)

\* session.commit() of message_crud.create
VN_Create(c) ==
  /\ pc[c] = "vn_create"
  /\ messages' = create(messages, loc[c].ev)
  /\ Leave(c, [loc[c] EXCEPT !.mid = Len(messages) + 1, !.effects = @ \cup {"create"}], "vn_ttfa")
  /\ UNCHANGED <<events_received, mgrVars, sock_ok, current_user_id, tasks, metricVars, wire, settings, last_call, stt, tts, tts_calls, metrics_service>>

\* after translate returned r: metric, write-back task, then the fresh query
AfterTranslate(c, L, metrics, r) ==
  LET L2 == [L EXCEPT !.effects = @ \cup (IF r.called THEN {"translate"} ELSE {})]
  IN IF r.raised
     THEN /\ ttfa_metrics' = metrics
          /\ UNCHANGED <<translation_times, tasks>>
          /\ Leave(c, L2, "vn_failed")
     ELSE /\ ttfa_metrics' = record_translation_completed(metrics, L.mid)
          /\ translation_times' = IF L.mid \in DOMAIN metrics THEN translation_times + 1 ELSE translation_times
          /\ tasks' = tasks \cup {translation_task(L.mid, r.text)}
          /\ Leave(c, [L2 EXCEPT !.translated_text = Some(r.text)], "vn_fresh")

\* create returns: start_ttfa_tracking, then translate up to its first suspension
VN_StartTTFA(c) ==
  /\ pc[c] = "vn_ttfa"
  /\ LET ev == loc[c].ev
         L == [loc[c] EXCEPT !.effects = @ \cup {"ttfa"}]
         metrics == start_ttfa_tracking(ttfa_metrics, L.mid, ev.sender_id, L.recipient_id, ev.source_lang, ev.target_lang)
     IN IF translation_provider_effective(settings) = "openai"
        THEN \E o \in ProviderOutcomes :
               AfterTranslate(c, L, metrics, openai_translate(ev.text_source, ev.source_lang, ev.target_lang, settings.openai_client, o))
        ELSE IF ~libre_suspends(ev.source_lang, ev.target_lang)
        THEN AfterTranslate(c, L, metrics, libre_translate(ev.text_source, ev.source_lang, ev.target_lang, "ok"))
        ELSE /\ ttfa_metrics' = metrics
             /\ Leave(c, [L EXCEPT !.effects = @ \cup {"translate"}], "vn_translate")
             /\ UNCHANGED <<translation_times, tasks>>
  /\ UNCHANGED <<events_received, mgrVars, sock_ok, current_user_id, messages, wire, settings, last_call, stt, tts, tts_calls, metrics_service>>

\* the executor call of TranslationService.translate returns
VN_Translate(c) ==
  /\ pc[c] = "vn_translate"
  /\ \E o \in ProviderOutcomes :
       AfterTranslate(c, loc[c], ttfa_metrics, libre_translate(loc[c].ev.text_source, loc[c].ev.source_lang, loc[c].ev.target_lang, o))
  /\ UNCHANGED <<events_received, mgrVars, sock_ok, current_user_id, messages, wire, settings, last_call, stt, tts, tts_calls, metrics_service>>

\* the fresh query returns: both views, record_ws_sent, send_to_user(recipient_id, ...)
VN_Fresh(c) ==
  /\ pc[c] = "vn_fresh"
  /\ LET row == messages[loc[c].mid]
         tt == loc[c].translated_text[1]
         rv == recipient_ws_response(row, loc[c].ev, tt)
         sv == sender_ws_response(row, loc[c].ev, tt)
         L == [loc[c] EXCEPT !.recipient_ws_response = Some(rv), !.sender_ws_response = Some(sv), !.effects = @ \cup {"dispatch"}, !.calls = @ \cup {[role |-> "recipient", user_id |-> loc[c].recipient_id, payload |-> rv]}]
         kr == get_connection(user_connections, L.recipient_id)
     IN /\ ttfa_metrics' = record_ws_sent(ttfa_metrics, loc[c].mid)
        /\ IF kr = NoConn \/ ~InActive(active_connections, kr)
           THEN SenderStage(c, L, FALSE, active_connections, user_connections)
           ELSE /\ Leave(c, [L EXCEPT !.target = kr], "vn_send_rcpt")
                /\ UNCHANGED <<mgrVars, tasks>>
  /\ UNCHANGED <<events_received, sock_ok, current_user_id, messages, translation_times, wire, settings, last_call, stt, tts, tts_calls, metrics_service>>

\* what a successful write of send_to_user(to_user, payload) leaves on connection k
Written(k, to_user, payload) ==
  [wire EXCEPT ![k] = Append(@, [to_user |-> to_user, sender_bound |-> get_connection(user_connections, payload.message.sender_id), payload |-> payload])]

\* the write to the recipient's session returns or raises; then send_to_user(sender_id, ...)
VN_SendRcptDone(c) ==
  /\ pc[c] = "vn_send_rcpt"
  /\ LET k == loc[c].target
         ok == WriteOk(k)
         ac == IF ok THEN active_connections ELSE disconnect_active(active_connections, k)
         uc == IF ok THEN user_connections ELSE disconnect_users(user_connections, k)
     IN /\ wire' = IF ok THEN Written(k, loc[c].recipient_id, loc[c].recipient_ws_response[1]) ELSE wire
        /\ SenderStage(c, loc[c], ok, ac, uc)
  /\ UNCHANGED <<events_received, sock_ok, current_user_id, messages, metricVars, settings, last_call, stt, tts, tts_calls, metrics_service>>

\* the write to the sender's session returns or raises; then the status task
VN_SendSndrDone(c) ==
  /\ pc[c] = "vn_send_sndr"
  /\ LET k == loc[c].target
         ok == WriteOk(k)
     IN /\ wire' = IF ok THEN Written(k, loc[c].ev.sender_id, loc[c].sender_ws_response[1]) ELSE wire
        /\ active_connections' = IF ok THEN active_connections ELSE disconnect_active(active_connections, k)
        /\ user_connections' = IF ok THEN user_connections ELSE disconnect_users(user_connections, k)
        /\ Finish(c, loc[c], loc[c].sent_to_recipient)
  /\ UNCHANGED <<events_received, sock_ok, current_user_id, messages, metricVars, settings, last_call, stt, tts, tts_calls, metrics_service>>

\* a store call of the handler raises: caught by the handler's except clause
VN_StoreError(c) ==
  /\ pc[c] \in {"vn_create", "vn_ttfa", "vn_fresh"}
  /\ Leave(c, loc[c], "vn_failed")
  /\ UNCHANGED <<events_received, mgrVars, sock_ok, current_user_id, storeVars, metricVars, wire, settings, last_call, stt, tts, tts_calls, metrics_service>>

\* ------------------------------------------------------ PersistenceWorker
\* persist_message_translation runs
RunTranslationTask(t) ==
  /\ t \in tasks
  /\ t.kind = "translation"
  /\ messages' = update_translation(messages, t.message_id, t.text[1]).messages
  /\ tasks' = tasks \ {t}
  /\ UNCHANGED <<events_received, mgrVars, sock_ok, pc, current_user_id, loc, metricVars, wire, settings, last_call, stt, tts, tts_calls, metrics_service>>

\* update_message_status runs
RunStatusTask(t) ==
  /\ t \in tasks
  /\ t.kind = "status"
  /\ messages' = update_status(messages, t.message_id, t.status, None).messages
  /\ tasks' = tasks \ {t}
  /\ UNCHANGED <<events_received, mgrVars, sock_ok, pc, current_user_id, loc, metricVars, wire, settings, last_call, stt, tts, tts_calls, metrics_service>>

\* the store call of a background task raises: logged, the task ends
TaskStoreError(t) ==
  /\ t \in tasks
  /\ tasks' = tasks \ {t}
  /\ UNCHANGED <<events_received, mgrVars, sock_ok, pc, current_user_id, loc, messages, metricVars, wire, settings, last_call, stt, tts, tts_calls, metrics_service>>

\* ---------------------------------------------------------- specification
Next ==
  \/ \E c \in Conns : Connect(c)
  \/ \E c \in Conns : ConnectFail(c)
  \/ \E c \in Conns : ClientClose(c)
  \/ \E c \in Conns : RecvDisconnect(c)
  \/ \E c \in Conns, u \in JoinIds : RecvJoin(c, u)
  \/ \E c \in Conns : BroadcastWriteDone(c)
  \/ \E c \in NoteConns : RecvOther(c)
  \/ \E c \in Conns : ErrSendDone(c)
  \/ \E c \in NoteConns, ev \in Events : RecvVoiceNote(c, ev)
  \/ \E c \in Conns : VN_Create(c)
  \/ \E c \in Conns : VN_StartTTFA(c)
  \/ \E c \in Conns : VN_Translate(c)
  \/ \E c \in Conns : VN_Fresh(c)
  \/ \E c \in Conns : VN_SendRcptDone(c)
  \/ \E c \in Conns : VN_SendSndrDone(c)
  \/ \E c \in Conns : VN_StoreError(c)
  \/ \E c \in Conns : Return(c)
  \/ \E t \in tasks : RunTranslationTask(t)
  \/ \E t \in tasks : RunStatusTask(t)
  \/ \E t \in tasks : TaskStoreError(t)

Spec == Init /\ [][Next]_vars

\* ------------------------------------------- the relay with a working store
\* no store call raises; the event loop runs every ready coroutine and every
\* task that loop.create_task scheduled (weak fairness on both)
HandlerStep ==
  \E c \in Conns : VN_Create(c) \/ VN_StartTTFA(c) \/ VN_Translate(c) \/ VN_Fresh(c) \/ VN_SendRcptDone(c) \/ VN_SendSndrDone(c)

TaskStep ==
  \E t \in tasks : RunTranslationTask(t) \/ RunStatusTask(t)

FairNext ==
  \/ \E c \in Conns : Connect(c)
  \/ \E c \in Conns : ConnectFail(c)
  \/ \E c \in Conns : ClientClose(c)
  \/ \E c \in Conns : RecvDisconnect(c)
  \/ \E c \in Conns, u \in JoinIds : RecvJoin(c, u)
  \/ \E c \in Conns : BroadcastWriteDone(c)
  \/ \E c \in NoteConns : RecvOther(c)
  \/ \E c \in Conns : ErrSendDone(c)
  \/ \E c \in NoteConns, ev \in Events : RecvVoiceNote(c, ev)
  \/ \E c \in Conns : Return(c)
  \/ HandlerStep
  \/ TaskStep

FairSpec == Init /\ [][FairNext]_vars /\ WF_vars(HandlerStep) /\ WF_vars(TaskStep)

\* ------------------------------------------------ MessageCRUD called directly
\* rows the message table can hold
StoredTexts == {None, Some(Plain("hello"))}
StoredTtfa == {None, Some(120)}
StoredRows == {[id |-> 0, conversation_id |-> "conv1", sender_id |-> "A", source_lang |-> "es", target_lang |-> "en", text_source |-> "hola", text_translated |-> t, status |-> st, ttfa_ms |-> ms] : t \in StoredTexts, st \in MessageStatus, ms \in StoredTtfa}

RECURSIVE Tables(_)
Tables(n) ==
  IF n = 0 THEN {<< >>}
  ELSE Tables(n - 1) \cup {Append(tb, [r EXCEPT !.id = Len(tb) + 1]) : tb \in {x \in Tables(n - 1) : Len(x) = n - 1}, r \in StoredRows}

StoreInit ==
  /\ events_received = 0
  /\ active_connections = << >>
  /\ user_connections = << >>
  /\ sock_ok = [c \in Conns |-> TRUE]
  /\ pc = [c \in Conns |-> "new"]
  /\ current_user_id = [c \in Conns |-> None]
  /\ loc = [c \in Conns |-> NoLoc]
  /\ messages \in Tables(MaxMessages)
  /\ ttfa_metrics = << >>
  /\ translation_times = 0
  /\ tasks = {}
  /\ wire = [c \in Conns |-> << >>]
  /\ settings \in Settings
  /\ last_call = NoCall
  /\ stt = NoStt
  /\ tts = NoTts
  /\ tts_calls = NoTtsCalls
  /\ metrics_service = MetricsService

RowOf(msgs, message_id) == IF message_id \in 1..Len(msgs) THEN Some(msgs[message_id]) ELSE None

\* await message_crud.update_status(session, message_id, status, ttfa_ms)
CallUpdateStatus(message_id, status, ttfa_ms) ==
  LET r == update_status(messages, message_id, status, ttfa_ms)
  IN /\ messages' = r.messages
     /\ last_call' = [op |-> "update_status", message_id |-> message_id, status |-> status, ttfa_ms |-> ttfa_ms, text |-> None, result |-> r.result, before |-> RowOf(messages, message_id), repeat |-> (last_call.op = "update_status" /\ last_call.message_id = message_id /\ last_call.status = status /\ last_call.ttfa_ms = ttfa_ms), prev_result |-> last_call.result]
     /\ UNCHANGED <<events_received, mgrVars, sock_ok, pc, current_user_id, loc, tasks, metricVars, wire, settings, stt, tts, tts_calls, metrics_service>>

\* await message_crud.update_translation(session, message_id, translated_text)
CallUpdateTranslation(message_id, translated_text) ==
  LET r == update_translation(messages, message_id, translated_text)
  IN /\ messages' = r.messages
     /\ last_call' = [op |-> "update_translation", message_id |-> message_id, status |-> "", ttfa_ms |-> None, text |-> Some(translated_text), result |-> r.result, before |-> RowOf(messages, message_id), repeat |-> (last_call.op = "update_translation" /\ last_call.message_id = message_id /\ last_call.text = Some(translated_text)), prev_result |-> last_call.result]
     /\ UNCHANGED <<events_received, mgrVars, sock_ok, pc, current_user_id, loc, tasks, metricVars, wire, settings, stt, tts, tts_calls, metrics_service>>

StoreNext ==
  \/ \E message_id \in 1..(MaxMessages + 1), status \in MessageStatus, ttfa_ms \in StoredTtfa : CallUpdateStatus(message_id, status, ttfa_ms)
  \/ \E message_id \in 1..(MaxMessages + 1), text \in {Plain("hello"), Plain("")} : CallUpdateTranslation(message_id, text)

StoreSpec == StoreInit /\ [][StoreNext]_vars

\* ------------------------------------------------- POST /stt/transcribe
\* the largest accepted upload, in bytes
max_size == 10485760

\* uploads shorter than this are refused by the ElevenLabs service
elevenlabs_min_bytes == 6000

AudioSizes == {0, elevenlabs_min_bytes - 1, elevenlabs_min_bytes, max_size, max_size + 1}

LanguageHints == {None, Some("es"), Some("de")}

\* the configurations of the speech-to-text chain
SttSettings == {[translation_provider |-> "auto", stt_provider |-> p, tts_provider |-> "elevenlabs", openai_client |-> k, stt_fallback_enabled |-> f] : p \in {"elevenlabs", "openai", "whisper"}, k \in BOOLEAN, f \in BOOLEAN}

\* language or "en"
or_en(language) == IF language = None THEN "en" ELSE language[1]

elevenlabs_transcribe(size, language) ==
  IF size < elevenlabs_min_bytes
    THEN {[text |-> "", language |-> or_en(language), error |-> Some("Audio too short")]}
    ELSE {[text |-> Strip("hello\n"), language |-> or_en(language), error |-> None],
          [text |-> "", language |-> or_en(language), error |-> Some("Empty transcription")]}

openai_stt_transcribe(client, language) ==
  IF ~client
    THEN {[text |-> "", language |-> or_en(language), error |-> Some("OpenAI API key not configured")]}
    ELSE {[text |-> Strip("hello\n"), language |-> or_en(language), error |-> None],
          [text |-> Strip("  "), language |-> or_en(language), error |-> None],
          [text |-> "", language |-> or_en(language), error |-> Some("timeout")]}

whisper_transcribe(language) ==
  {[text |-> Strip("hello\n"), language |-> or_en(language), error |-> None],
   [text |-> "", language |-> or_en(language), error |-> Some("No speech detected in audio")]}

mock_transcriptions == [en |-> {"Hello, how are you today?", "I need to see the doctor."}, es |-> {"Hola, como estas hoy?", "Necesito ver al medico."}, fr |-> {"Bonjour, comment allez-vous aujourd'hui?", "J'ai besoin de voir le medecin."}]

\* a mock that has no default language for a hint outside its table
mock_transcribe_no_default(language) ==
  IF or_en(language) \in DOMAIN mock_transcriptions
    THEN {[text |-> t, language |-> or_en(language), error |-> None] : t \in mock_transcriptions[or_en(language)]}
    ELSE {[text |-> "", language |-> or_en(language), error |-> None]}

mock_transcribe(language) ==
  LET detected_lang == IF or_en(language) \in DOMAIN mock_transcriptions THEN or_en(language) ELSE "en"
  IN {[text |-> t, language |-> detected_lang, error |-> None] : t \in mock_transcriptions[detected_lang]}

\* what a call of the named service can return
transcribe(engine, size, client, language) ==
  CASE engine = "elevenlabs" -> elevenlabs_transcribe(size, language)
    [] engine = "openai" -> openai_stt_transcribe(client, language)
    [] engine = "whisper" -> whisper_transcribe(language)
    [] OTHER -> mock_transcribe(language)

\* the branch of the chain a configured provider selects
engine_of(provider) == IF provider \in {"elevenlabs", "openai"} THEN provider ELSE "whisper"

\* the one engine the chain falls back to after the primary
fallback_engine(engine) == IF engine = "elevenlabs" THEN "whisper" ELSE "elevenlabs"

\* "error" in result and result["error"] or not text.strip()
unusable(result) == result.error # None \/ Strip(result.text) = ""

\* a retry that is made whenever the result carries no error
retry_wanted_without_text_test(result) == result.error = None

\* retry_auto_if_empty calls the provider again only for a blank text without error
retry_wanted(result) == ~(result.error # None \/ Strip(result.text) # "")

\* a fallback that is made whatever the configuration says
fallback_wanted_ignoring_flag(fallback_enabled, result) == unusable(result)

fallback_wanted(fallback_enabled, result) == fallback_enabled /\ unusable(result)

\* a size check that lets every upload through
too_large_unchecked(size) == FALSE

\* audio.size and audio.size > max_size
too_large(size) == size # 0 /\ size > max_size

STTResponse(text, language, provider, error) == [status_code |-> 200, text |-> text, language |-> language, provider |-> provider, error |-> error]

HTTPException(status_code, detail) == [type |-> "HTTPException", status_code |-> status_code, detail |-> detail]

Respond(s, response) == [s EXCEPT !.pc = "done", !.response = Some(response)]

Invoke(s, provider, engine, language, stage) ==
  [s EXCEPT !.pc = "call", !.provider = provider, !.stage = stage, !.invoked = Append(@, [engine |-> engine, language |-> language])]

\* the except clauses of the handler: an HTTPException is re-raised, anything else asks the mock
outer_except(s, exc) ==
  IF exc.type = "HTTPException"
    THEN Respond(s, [status_code |-> exc.status_code, text |-> "", language |-> "", provider |-> "", error |-> Some(exc.detail)])
    ELSE Invoke(s, "mock", "mock", s.language, "last_resort")

final_response(s, provider, result) ==
  IF result.error # None
    THEN Respond(s, STTResponse("", or_en(s.language), provider, result.error))
    ELSE Respond(s, STTResponse(result.text, result.language, provider, None))

after_chain(s, fallback_enabled, provider, result) ==
  IF unusable(result)
    THEN IF ~fallback_enabled
           THEN Respond(s, STTResponse("", or_en(s.language), provider, IF result.error # None THEN result.error ELSE Some("No speech detected")))
           ELSE Invoke(s, "mock", "mock", s.language, "mock")
    ELSE final_response(s, provider, result)

after_primary(s, fallback_enabled, result) ==
  IF fallback_wanted(fallback_enabled, result)
    THEN Invoke(s, fallback_engine(engine_of(s.provider)), fallback_engine(engine_of(s.provider)), s.language, "fallback")
    ELSE after_chain(s, fallback_enabled, s.provider, result)

\* the handler from the return of one service call to the next call or the response
after_result(s0, fallback_enabled, result) ==
  LET s == [s0 EXCEPT !.results = Append(@, result)]
      engine == s0.invoked[Len(s0.invoked)].engine
  IN CASE s.stage = "primary" ->
            IF retry_wanted(result) THEN Invoke(s, s.provider, engine, None, "primary_retry")
            ELSE after_primary(s, fallback_enabled, result)
       [] s.stage = "primary_retry" -> after_primary(s, fallback_enabled, result)
       [] s.stage = "fallback" ->
            IF retry_wanted(result) THEN Invoke(s, s.provider, engine, None, "fallback_retry")
            ELSE after_chain(s, fallback_enabled, s.provider, result)
       [] s.stage = "fallback_retry" -> after_chain(s, fallback_enabled, s.provider, result)
       [] s.stage \in {"mock", "except"} -> final_response(s, "mock", result)
       [] OTHER -> Respond(s, STTResponse(result.text, result.language, "mock", Some("Whisper unavailable, using mock transcription")))

sttOther == <<events_received, mgrVars, sock_ok, pc, current_user_id, loc, storeVars, metricVars, tasks, wire, settings, last_call, tts, tts_calls, metrics_service>>

SttInit ==
  /\ events_received = 0
  /\ active_connections = << >>
  /\ user_connections = << >>
  /\ sock_ok = [c \in Conns |-> TRUE]
  /\ pc = [c \in Conns |-> "closed"]
  /\ current_user_id = [c \in Conns |-> None]
  /\ loc = [c \in Conns |-> NoLoc]
  /\ messages = << >>
  /\ ttfa_metrics = << >>
  /\ translation_times = 0
  /\ tasks = {}
  /\ wire = [c \in Conns |-> << >>]
  /\ settings \in SttSettings
  /\ last_call = NoCall
  /\ stt = NoStt
  /\ tts = NoTts
  /\ tts_calls = NoTtsCalls
  /\ metrics_service = MetricsService

\* the upload arrives; the size is tested and the body is read
SttRequest ==
  /\ stt.pc = "idle"
  /\ \E size \in AudioSizes, language \in LanguageHints :
       LET s == [stt EXCEPT !.size = size, !.language = language]
       IN stt' = IF too_large(size)
                   THEN outer_except(s, HTTPException(413, "Audio file too large. Maximum size is 10MB."))
                   ELSE [s EXCEPT !.pc = "read"]
  /\ UNCHANGED sttOther

\* audio.read() returns or fails; the first service of the chain is called
SttRead ==
  /\ stt.pc = "read"
  /\ \E read_ok \in BOOLEAN :
       stt' = IF ~read_ok THEN outer_except(stt, [type |-> "Exception", status_code |-> 0, detail |-> "read failed"])
              ELSE IF stt.size = 0 THEN outer_except(stt, HTTPException(400, "Empty audio file"))
              ELSE LET provider == IF settings.stt_provider = "" THEN "whisper" ELSE settings.stt_provider
                   IN Invoke(stt, provider, engine_of(provider), stt.language, "primary")
  /\ UNCHANGED sttOther

\* the service that was called returns
SttServiceReturns ==
  /\ stt.pc = "call"
  /\ \E result \in transcribe(stt.invoked[Len(stt.invoked)].engine, stt.size, settings.openai_client, stt.invoked[Len(stt.invoked)].language) :
       stt' = after_result(stt, settings.stt_fallback_enabled, result)
  /\ UNCHANGED sttOther

SttNext == SttRequest \/ SttRead \/ SttServiceReturns

SttSpec == SttInit /\ [][SttNext]_vars

\* the handler from an exception raised by the awaited service call to the next call or the response
after_exception(s) ==
  IF s.stage \in {"primary", "primary_retry", "fallback", "fallback_retry", "mock"}
    THEN Invoke(s, "mock", "mock", s.language, "except")
  ELSE IF s.stage = "except"
    THEN outer_except(s, [type |-> "Exception", status_code |-> 0, detail |-> "stt_error"])
  ELSE outer_except(s, HTTPException(500, "All transcription services failed"))

\* the service that was called raises instead of returning a result
SttServiceRaises ==
  /\ stt.pc = "call"
  /\ stt' = after_exception(stt)
  /\ UNCHANGED sttOther

SttRaiseNext == SttRequest \/ SttRead \/ SttServiceReturns \/ SttServiceRaises

\* the route with service calls that may raise
SttRaiseSpec == SttInit /\ [][SttRaiseNext]_vars

\* ------------------------------------------------------- POST /tts/speak
MaxTtsRequests == 2

TtsSettings == {[translation_provider |-> "auto", stt_provider |-> "elevenlabs", tts_provider |-> p, openai_client |-> k, stt_fallback_enabled |-> TRUE, elevenlabs_api_key |-> e] : p \in {"elevenlabs", "openai", "browser", "piper"}, k \in BOOLEAN, e \in BOOLEAN}

TtsSenderIds == {None, Some("A"), Some("ghost")}

TtsSenderGenders == {None, Some(" Female"), Some("other")}

RandomGenders == {"male", "female"}

\* sender_gender.lower().strip()
lower_strip(g) == IF g = " Female" THEN "female" ELSE g

\* the gender the resolver returns without looking at the store, if any
clear_gender(sender_gender) ==
  IF sender_gender = None THEN None
  ELSE IF lower_strip(sender_gender[1]) \in {"female", "woman", "f", "fem"} THEN Some("female")
  ELSE IF lower_strip(sender_gender[1]) \in {"male", "man", "m", "mas"} THEN Some("male")
  ELSE None

\* select(User.tts_gender).where(User.id == sender_id), scalar_one_or_none
select_tts_gender(users, sender_id) == IF sender_id \in DOMAIN users THEN users[sender_id] ELSE None

\* update(User).where(User.id == sender_id).values(tts_gender = assigned_gender)
update_tts_gender(users, sender_id, assigned_gender) ==
  [u \in DOMAIN users |-> IF u = sender_id THEN Some(assigned_gender) ELSE users[u]]

\* base64.b64encode(audio_bytes).decode("utf-8")
b64encode(audio_bytes) == IF audio_bytes = "mp3" THEN "bXAz" ELSE ""

\* the voices the ElevenLabs account lists: none (not loaded, or an empty list), or some
VoicesCaches == {<< >>,
                 <<[voice_id |-> "v1", name |-> "Zed"]>>,
                 <<[voice_id |-> "v1", name |-> "Zed"], [voice_id |-> "v2", name |-> "Clyde"], [voice_id |-> "v3", name |-> "Rachel"]>>}

VoiceLangs == {"en", "es", "en-US", "xx"}

VoiceHints == {None, Some("v3"), Some("clyde"), Some("nobody")}

EffectiveGenders == {None, Some("male"), Some("female"), Some("other")}

\* name.lower()
lower(name) == IF name = "Zed" THEN "zed" ELSE IF name = "Clyde" THEN "clyde" ELSE IF name = "Rachel" THEN "rachel" ELSE name

\* lang.split('-')[0].lower()
lang_code_of(lang) == IF lang = "en-US" THEN "en" ELSE lang

\* lang_preferences, with the names that no modelled voice carries left out
lang_preferences ==
  [en |-> [female |-> <<"Rachel">>, male |-> <<"Clyde">>, neutral |-> <<"Rachel", "Clyde">>],
   es |-> [female |-> <<"Rachel">>, male |-> <<"Clyde">>, neutral |-> <<"Clyde", "Rachel">>]]

\* gender_key: neutral without a gender, the gender if it is clear, otherwise random.choice
gender_keys(sender_gender) ==
  IF sender_gender = None THEN {"neutral"}
  ELSE IF clear_gender(sender_gender) # None THEN {clear_gender(sender_gender)[1]}
  ELSE RandomGenders

\* _fallback_voice_for: Rachel for female and neutral, Antoni for male
fallback_voice_for(lang, sender_gender) ==
  {[female |-> "21m00Tcm4TlvDq8ikWAM", male |-> "ErXwobaYiN019PkySvjV", neutral |-> "21m00Tcm4TlvDq8ikWAM"][g] : g \in gender_keys(sender_gender)}

\* the first voice of the cache whose name contains one of the preferred names, taken in their order
RECURSIVE preferred_voice(_, _)
preferred_voice(voices_cache, preferred_names) ==
  IF preferred_names = << >> THEN None
  ELSE IF \E i \in 1..Len(voices_cache) : lower(voices_cache[i].name) = lower(Head(preferred_names))
    THEN Some(voices_cache[CHOOSE i \in 1..Len(voices_cache) : /\ lower(voices_cache[i].name) = lower(Head(preferred_names))
                                                               /\ \A j \in 1..(i - 1) : lower(voices_cache[j].name) # lower(Head(preferred_names))].voice_id)
  ELSE preferred_voice(voices_cache, Tail(preferred_names))

\* _find_best_voice: the voice ids it can return
find_best_voice(voices_cache, lang, voice_hint, sender_gender) ==
  IF voices_cache = << >> THEN fallback_voice_for(lang, None)
  ELSE IF voice_hint # None /\ \E i \in 1..Len(voices_cache) : voices_cache[i].voice_id = voice_hint[1]
    THEN {voice_hint[1]}
  ELSE IF voice_hint # None /\ \E i \in 1..Len(voices_cache) : lower(voice_hint[1]) = lower(voices_cache[i].name)
    THEN {voices_cache[CHOOSE i \in 1..Len(voices_cache) : /\ lower(voice_hint[1]) = lower(voices_cache[i].name)
                                                           /\ \A j \in 1..(i - 1) : lower(voice_hint[1]) # lower(voices_cache[j].name)].voice_id}
  ELSE LET lang_voices == IF lang_code_of(lang) \in DOMAIN lang_preferences THEN lang_preferences[lang_code_of(lang)] ELSE lang_preferences["en"]
       IN {IF preferred_voice(voices_cache, lang_voices[g]) # None
             THEN preferred_voice(voices_cache, lang_voices[g])[1]
             ELSE voices_cache[1].voice_id : g \in gender_keys(sender_gender)}

\* OpenAITTSService._select_voice_by_gender: the first voice listed for the gender key
select_voice_by_gender(sender_gender) ==
  {[female |-> "nova", male |-> "echo", neutral |-> "alloy"][g] : g \in gender_keys(sender_gender)}

\* the voices a service can pick for the resolved gender when the request carries no voice hint
voice_for(service, voices_cache, gender) ==
  IF service = "openai" THEN select_voice_by_gender(Some(gender))
  ELSE find_best_voice(voices_cache, "en", None, Some(gender))

TTSResponse(audio_base64, content_type, provider, voice_used, needs_browser_fallback) ==
  [status_code |-> 200, audio_base64 |-> audio_base64, content_type |-> content_type, provider |-> provider, voice_used |-> voice_used, needs_browser_fallback |-> needs_browser_fallback]

TtsRespond(t, response) == [t EXCEPT !.pc = "done", !.response = Some(response)]

\* a tail that passes the voice of the service on in the fallback response too
tts_result_keeping_voice(t, audio_bytes, needs_fallback, voice_used) ==
  IF needs_fallback \/ audio_bytes = ""
    THEN TtsRespond(t, TTSResponse("", "audio/mpeg", t.service, voice_used, TRUE))
    ELSE TtsRespond(t, TTSResponse(b64encode(audio_bytes), "audio/mpeg", t.service, voice_used, FALSE))

\* the tail of synthesize_speech, from the tuple a service returned
tts_result(t, audio_bytes, needs_fallback, voice_used) ==
  IF needs_fallback \/ audio_bytes = ""
    THEN TtsRespond(t, TTSResponse("", "audio/mpeg", t.service, None, TRUE))
    ELSE TtsRespond(t, TTSResponse(b64encode(audio_bytes), "audio/mpeg", t.service, voice_used, FALSE))

\* the resolver has returned gender; the service calls the provider's API
gender_resolved(t, gender) ==
  [t EXCEPT !.pc = "synth", !.assigned = Some(gender),
            !.gender_log = Append(@, [sender_id |-> t.sender_id, sender_gender |-> t.sender_gender, gender |-> gender])]

\* _get_or_assign_tts_gender up to its first await, for either service
get_or_assign_tts_gender(t) ==
  IF clear_gender(t.sender_gender) # None THEN {gender_resolved(t, clear_gender(t.sender_gender)[1])}
  ELSE IF t.sender_id # None THEN {[t EXCEPT !.pc = "select"]}
  ELSE {gender_resolved(t, g) : g \in RandomGenders}

\* synthesize_speech from the request to the first await, or to the response
tts_dispatch(t, cfg) ==
  IF cfg.tts_provider = "elevenlabs" /\ cfg.elevenlabs_api_key
    THEN get_or_assign_tts_gender([t EXCEPT !.service = "elevenlabs"])
  ELSE IF cfg.tts_provider \in {"elevenlabs", "openai"}
    THEN IF ~cfg.openai_client
           THEN {tts_result([t EXCEPT !.service = "openai"], "", TRUE, None)}
           ELSE get_or_assign_tts_gender([t EXCEPT !.service = "openai"])
  ELSE IF cfg.tts_provider = "browser"
    THEN {TtsRespond(t, TTSResponse("", "audio/wav", "browser", None, TRUE))}
  ELSE {TtsRespond(t, [status_code |-> 500, audio_base64 |-> "", content_type |-> "", provider |-> cfg.tts_provider, voice_used |-> None, needs_browser_fallback |-> FALSE])}

ttsOther == <<events_received, mgrVars, sock_ok, pc, current_user_id, loc, storeVars, metricVars, tasks, wire, settings, last_call, stt, tts_calls, metrics_service>>

TtsInit ==
  /\ events_received = 0
  /\ active_connections = << >>
  /\ user_connections = << >>
  /\ sock_ok = [c \in Conns |-> TRUE]
  /\ pc = [c \in Conns |-> "closed"]
  /\ current_user_id = [c \in Conns |-> None]
  /\ loc = [c \in Conns |-> NoLoc]
  /\ messages = << >>
  /\ ttfa_metrics = << >>
  /\ translation_times = 0
  /\ tasks = {}
  /\ wire = [c \in Conns |-> << >>]
  /\ settings \in TtsSettings
  /\ last_call = NoCall
  /\ stt = NoStt
  /\ tts = NoTts
  /\ tts_calls = NoTtsCalls
  /\ metrics_service = MetricsService

\* a request arrives after the previous one was answered
TtsRequest ==
  /\ tts.pc \in {"idle", "done"}
  /\ tts.n < MaxTtsRequests
  /\ \E sender_id \in TtsSenderIds, sender_gender \in TtsSenderGenders :
       tts' \in tts_dispatch([tts EXCEPT !.n = @ + 1, !.sender_id = sender_id, !.sender_gender = sender_gender, !.service = "", !.assigned = None, !.response = None], settings)
  /\ UNCHANGED ttsOther

\* the select of the stored gender returns, or the session raises
TtsSelectReturns ==
  /\ tts.pc = "select"
  /\ \E ok \in BOOLEAN, g \in RandomGenders :
       LET existing_tts_gender == select_tts_gender(tts.users, tts.sender_id[1])
       IN tts' = IF ~ok THEN gender_resolved(tts, g)
                 ELSE IF existing_tts_gender # None THEN gender_resolved(tts, existing_tts_gender[1])
                 ELSE [tts EXCEPT !.pc = "update", !.assigned = Some(g)]
  /\ UNCHANGED ttsOther

\* the update is committed, or the session raises and a gender is drawn for this call only
TtsUpdateCommitted ==
  /\ tts.pc = "update"
  /\ \E ok \in BOOLEAN, g \in RandomGenders :
       tts' = IF ok
                THEN gender_resolved([tts EXCEPT !.users = update_tts_gender(@, tts.sender_id[1], tts.assigned[1])], tts.assigned[1])
                ELSE gender_resolved(tts, g)
  /\ UNCHANGED ttsOther

\* the provider's API call returns audio, returns nothing, or raises
TtsSynthReturns ==
  /\ tts.pc = "synth"
  /\ \E outcome \in {"audio", "empty", "exception"}, voices_cache \in VoicesCaches :
       \E voice \in voice_for(tts.service, voices_cache, tts.assigned[1]) :
         tts' = CASE outcome = "audio" -> tts_result(tts, "mp3", FALSE, Some(voice))
                  [] outcome = "empty" -> tts_result(tts, "", FALSE, Some(voice))
                  [] OTHER -> tts_result(tts, "", TRUE, None)
  /\ UNCHANGED ttsOther

TtsNext == TtsRequest \/ TtsSelectReturns \/ TtsUpdateCommitted \/ TtsSynthReturns

TtsSpec == TtsInit /\ [][TtsNext]_vars

\* ------------------------------------- concurrent calls of the gender resolver
ttsCallsOther == <<events_received, mgrVars, sock_ok, pc, current_user_id, loc, storeVars, metricVars, tasks, wire, settings, last_call, stt, tts, metrics_service>>

\* call k enters synthesize: the resolver answers at once or awaits its select
TtsCallEnters(k) ==
  /\ tts_calls.call[k].pc = "idle"
  /\ \E sender_id \in TtsSenderIds, sender_gender \in TtsSenderGenders :
       \E t \in tts_dispatch([tts_calls.call[k] EXCEPT !.n = 1, !.sender_id = sender_id, !.sender_gender = sender_gender], settings) :
         tts_calls' = [tts_calls EXCEPT !.call[k] = t]
  /\ UNCHANGED ttsCallsOther

\* call k's select returns what is committed now, or its session raises
TtsCallSelectReturns(k) ==
  /\ tts_calls.call[k].pc = "select"
  /\ \E ok \in BOOLEAN, g \in RandomGenders :
       LET t == tts_calls.call[k]
           existing_tts_gender == select_tts_gender(tts_calls.users, t.sender_id[1])
       IN tts_calls' = [tts_calls EXCEPT !.call[k] =
                          IF ~ok THEN gender_resolved(t, g)
                          ELSE IF existing_tts_gender # None THEN gender_resolved(t, existing_tts_gender[1])
                          ELSE [t EXCEPT !.pc = "update", !.assigned = Some(g)]]
  /\ UNCHANGED ttsCallsOther

\* call k's update is committed, or its session raises and a gender is drawn for this call only
TtsCallUpdateCommitted(k) ==
  /\ tts_calls.call[k].pc = "update"
  /\ \E ok \in BOOLEAN, g \in RandomGenders :
       LET t == tts_calls.call[k]
       IN tts_calls' = IF ok
                         THEN [tts_calls EXCEPT !.users = update_tts_gender(@, t.sender_id[1], t.assigned[1]),
                                                !.call[k] = gender_resolved(t, t.assigned[1])]
                         ELSE [tts_calls EXCEPT !.call[k] = gender_resolved(t, g)]
  /\ UNCHANGED ttsCallsOther

\* call k's provider request returns audio, returns nothing, or raises
TtsCallSynthReturns(k) ==
  /\ tts_calls.call[k].pc = "synth"
  /\ \E outcome \in {"audio", "empty", "exception"}, voices_cache \in VoicesCaches :
       LET t == tts_calls.call[k]
       IN \E voice \in voice_for(t.service, voices_cache, t.assigned[1]) :
            tts_calls' = [tts_calls EXCEPT !.call[k] =
                            CASE outcome = "audio" -> tts_result(t, "mp3", FALSE, Some(voice))
                              [] outcome = "empty" -> tts_result(t, "", FALSE, Some(voice))
                              [] OTHER -> tts_result(t, "", TRUE, None)]
  /\ UNCHANGED ttsCallsOther

TtsCallsNext == \E k \in TtsCallIds : TtsCallEnters(k) \/ TtsCallSelectReturns(k) \/ TtsCallUpdateCommitted(k) \/ TtsCallSynthReturns(k)

TtsCallsSpec == TtsInit /\ [][TtsCallsNext]_vars

\* ------------------------------------------- MetricsService with its clock
MaxClock == 3
MaxSamples == 2
MetricIds == {1}
ClientSentAt == {0, 2}

TTFAMetric(message_id, sender_id, recipient_id, source_lang, target_lang, client_sent_at, server_received_at) ==
  [message_id |-> message_id, sender_id |-> sender_id, recipient_id |-> recipient_id, source_lang |-> source_lang, target_lang |-> target_lang,
   client_sent_at |-> Some(client_sent_at), server_received_at |-> Some(server_received_at), translation_completed_at |-> None, ws_sent_at |-> None, client_played_at |-> None, ttfa_ms |-> None]

start_ttfa_tracking_at(svc, message_id, sender_id, recipient_id, source_lang, target_lang, client_sent_at) ==
  [svc EXCEPT !.returned = None,
              !.ttfa_metrics = [i \in DOMAIN svc.ttfa_metrics \cup {message_id} |->
                                  IF i = message_id THEN TTFAMetric(message_id, sender_id, recipient_id, source_lang, target_lang, client_sent_at, svc.utcnow)
                                  ELSE svc.ttfa_metrics[i]]]

record_translation_completed_at(svc, message_id) ==
  IF message_id \in DOMAIN svc.ttfa_metrics
    THEN [svc EXCEPT !.returned = None,
                     !.ttfa_metrics[message_id].translation_completed_at = Some(svc.utcnow),
                     !.translation_times = Append(@, svc.utcnow - svc.ttfa_metrics[message_id].server_received_at[1])]
    ELSE [svc EXCEPT !.returned = None]

record_ws_sent_at(svc, message_id) ==
  IF message_id \in DOMAIN svc.ttfa_metrics
    THEN [svc EXCEPT !.returned = None, !.ttfa_metrics[message_id].ws_sent_at = Some(svc.utcnow)]
    ELSE [svc EXCEPT !.returned = None]

record_client_played(svc, message_id) ==
  IF message_id \notin DOMAIN svc.ttfa_metrics
    THEN [svc EXCEPT !.returned = Some(0)]
    ELSE [svc EXCEPT !.ttfa_metrics[message_id].client_played_at = Some(svc.utcnow),
                     !.ttfa_metrics[message_id].ttfa_ms = Some(svc.utcnow - svc.ttfa_metrics[message_id].client_sent_at[1]),
                     !.returned = Some(svc.utcnow - svc.ttfa_metrics[message_id].client_sent_at[1])]

metricsOther == <<events_received, mgrVars, sock_ok, pc, current_user_id, loc, storeVars, metricVars, tasks, wire, settings, last_call, stt, tts, tts_calls>>

MetricsInit ==
  /\ events_received = 0
  /\ active_connections = << >>
  /\ user_connections = << >>
  /\ sock_ok = [c \in Conns |-> TRUE]
  /\ pc = [c \in Conns |-> "closed"]
  /\ current_user_id = [c \in Conns |-> None]
  /\ loc = [c \in Conns |-> NoLoc]
  /\ messages = << >>
  /\ ttfa_metrics = << >>
  /\ translation_times = 0
  /\ tasks = {}
  /\ wire = [c \in Conns |-> << >>]
  /\ settings = [translation_provider |-> "auto", stt_provider |-> "elevenlabs", tts_provider |-> "elevenlabs", openai_client |-> FALSE]
  /\ last_call = NoCall
  /\ stt = NoStt
  /\ tts = NoTts
  /\ tts_calls = NoTtsCalls
  /\ metrics_service = MetricsService

\* time passes between two calls
Tick ==
  /\ metrics_service.utcnow < MaxClock
  /\ metrics_service' = [metrics_service EXCEPT !.utcnow = @ + 1]
  /\ UNCHANGED metricsOther

\* the relay starts tracking a message it has just created (ids are fresh)
CallStartTracking(m) ==
  /\ m \notin DOMAIN metrics_service.ttfa_metrics
  /\ \E client_sent_at \in ClientSentAt :
       metrics_service' = start_ttfa_tracking_at(metrics_service, m, "A", "B", "es", "en", client_sent_at)
  /\ UNCHANGED metricsOther

CallTranslationCompleted(m) ==
  /\ Len(metrics_service.translation_times) < MaxSamples
  /\ metrics_service' = record_translation_completed_at(metrics_service, m)
  /\ UNCHANGED metricsOther

CallWsSent(m) ==
  /\ metrics_service' = record_ws_sent_at(metrics_service, m)
  /\ UNCHANGED metricsOther

CallClientPlayed(m) ==
  /\ metrics_service' = record_client_played(metrics_service, m)
  /\ UNCHANGED metricsOther

MetricsNext == Tick \/ \E m \in MetricIds : CallStartTracking(m) \/ CallTranslationCompleted(m) \/ CallWsSent(m) \/ CallClientPlayed(m)

MetricsSpec == MetricsInit /\ [][MetricsNext]_vars

\* ------------------------------------------- get_ttfa_stats, get_translation_stats
MaxCount == 21

\* ttfa_ms of a metric: not played yet, or whole milliseconds
TtfaValues == <<None, Some(5), Some(120)>>

\* translation times are kept in microseconds (timedelta.total_seconds() has that resolution)
TranslationValues == <<400, 1600, 250000>>

RECURSIVE Sum(_)
Sum(s) == IF s = << >> THEN 0 ELSE Head(s) + Sum(Tail(s))

RECURSIVE insert(_, _)
insert(x, s) == IF s = << >> THEN << x >> ELSE IF x <= Head(s) THEN << x >> \o s ELSE << Head(s) >> \o insert(x, Tail(s))

\* list.sort() / sorted(): ascending
RECURSIVE sorted(_)
sorted(s) == IF s = << >> THEN << >> ELSE insert(Head(s), sorted(Tail(s)))

\* round(num / den, 0): the nearest integer, a tie going to the even one
round_half_even(num, den) ==
  LET q == num \div den
      r == num % den
  IN IF 2 * r < den THEN q ELSE IF 2 * r > den THEN q + 1 ELSE IF q % 2 = 0 THEN q ELSE q + 1

\* a percentile index that is the last position whatever the count
p95_index_last(count) == count - 1

\* int(0.95 * count), as a 0-based index
p95_index(count) == (95 * count) \div 100

\* avg_ms is in hundredths of a millisecond (round(avg, 2)); the other fields in milliseconds
get_ttfa_stats(svc) ==
  LET values == svc.ttfa_metrics
      set == SelectSeq(values, LAMBDA metric : metric.ttfa_ms # None)
      completed_ttfas == sorted([i \in 1..Len(set) |-> set[i].ttfa_ms[1]])
      count == Len(completed_ttfas)
  IN IF count = 0
       THEN [count |-> 0, avg |-> 0, min |-> 0, max |-> 0, p95 |-> 0]
       ELSE [count |-> count,
             avg |-> round_half_even(100 * Sum(completed_ttfas), count),
             min |-> completed_ttfas[1],
             max |-> completed_ttfas[count],
             p95 |-> IF p95_index(count) < count THEN completed_ttfas[p95_index(count) + 1] ELSE completed_ttfas[count]]

\* every field but count is in thousandths of a second (round(x, 3)); the samples are in microseconds
get_translation_stats(svc) ==
  LET times_sorted == sorted(svc.translation_times)
      count == Len(times_sorted)
  IN IF count = 0
       THEN [count |-> 0, avg |-> 0, min |-> 0, max |-> 0, p95 |-> 0]
       ELSE [count |-> count,
             avg |-> round_half_even(Sum(times_sorted), 1000 * count),
             min |-> round_half_even(times_sorted[1], 1000),
             max |-> round_half_even(times_sorted[count], 1000),
             p95 |-> round_half_even(IF p95_index(count) < count THEN times_sorted[p95_index(count) + 1] ELSE times_sorted[count], 1000)]

\* i samples of one value followed by j samples of another
Samples(values, x, i, y, j) == [k \in 1..(i + j) |-> IF k <= i THEN values[x] ELSE values[y]]

\* the service after the relay has tracked messages 1..n: the dict values in insertion order
Tracked(ttfas, times) ==
  [ttfa_metrics |-> [m \in 1..Len(ttfas) |-> [TTFAMetric(m, "A", "B", "es", "en", 0, 0) EXCEPT !.ttfa_ms = ttfas[m]]],
   translation_times |-> times, utcnow |-> 0, returned |-> None]

StatsInit ==
  /\ events_received = 0
  /\ active_connections = << >>
  /\ user_connections = << >>
  /\ sock_ok = [c \in Conns |-> TRUE]
  /\ pc = [c \in Conns |-> "closed"]
  /\ current_user_id = [c \in Conns |-> None]
  /\ loc = [c \in Conns |-> NoLoc]
  /\ messages = << >>
  /\ ttfa_metrics = << >>
  /\ translation_times = 0
  /\ tasks = {}
  /\ wire = [c \in Conns |-> << >>]
  /\ settings = [translation_provider |-> "auto", stt_provider |-> "elevenlabs", tts_provider |-> "elevenlabs", openai_client |-> FALSE]
  /\ last_call = NoCall
  /\ stt = NoStt
  /\ tts = NoTts
  /\ tts_calls = NoTtsCalls
  /\ \E x \in 1..3, y \in 1..3, i \in 0..MaxCount, j \in 0..MaxCount :
       /\ i + j <= MaxCount
       /\ metrics_service = Tracked(Samples(TtfaValues, x, i, y, j), Samples(TranslationValues, x, i, y, j))

\* GET /api/v1/metrics evaluates both functions
CallGetTtfaStats ==
  /\ metrics_service' = [metrics_service EXCEPT !.returned = Some([op |-> "get_ttfa_stats", stats |-> get_ttfa_stats(metrics_service)])]
  /\ UNCHANGED metricsOther

CallGetTranslationStats ==
  /\ metrics_service' = [metrics_service EXCEPT !.returned = Some([op |-> "get_translation_stats", stats |-> get_translation_stats(metrics_service)])]
  /\ UNCHANGED metricsOther

StatsNext == CallGetTtfaStats \/ CallGetTranslationStats

StatsSpec == StatsInit /\ [][StatsNext]_vars

\* ------------------------------------------- ElevenLabs voice selection
VoiceInit ==
  /\ events_received = 0
  /\ active_connections = << >>
  /\ user_connections = << >>
  /\ sock_ok = [c \in Conns |-> TRUE]
  /\ pc = [c \in Conns |-> "closed"]
  /\ current_user_id = [c \in Conns |-> None]
  /\ loc = [c \in Conns |-> NoLoc]
  /\ messages = << >>
  /\ ttfa_metrics = << >>
  /\ translation_times = 0
  /\ tasks = {}
  /\ wire = [c \in Conns |-> << >>]
  /\ settings = [translation_provider |-> "auto", stt_provider |-> "elevenlabs", tts_provider |-> "elevenlabs", openai_client |-> FALSE]
  /\ last_call = NoCall
  /\ stt = NoStt
  /\ tts = NoTts
  /\ tts_calls = NoTtsCalls
  /\ metrics_service = MetricsService

\* synthesize_elevenlabs asks for the voice of one request
CallFindBestVoice ==
  /\ \E voices_cache \in VoicesCaches, lang \in VoiceLangs, voice_hint \in VoiceHints, sender_gender \in EffectiveGenders :
       \E voice_id \in find_best_voice(voices_cache, lang, voice_hint, sender_gender) :
         last_call' = [op |-> "_find_best_voice", voices_cache |-> voices_cache, lang |-> lang, voice_hint |-> voice_hint, sender_gender |-> sender_gender, result |-> voice_id]
  /\ UNCHANGED <<events_received, mgrVars, sock_ok, pc, current_user_id, loc, storeVars, metricVars, wire, settings, stt, tts, tts_calls, metrics_service>>

VoiceNext == CallFindBestVoice

VoiceSpec == VoiceInit /\ [][VoiceNext]_vars

\* ------------------------------------- the translation services called directly
TranslateTexts == {"hola", "hello"}

TranslateLangs == {"es", "en", "en-US"}

\* the provider choice of handle_voice_note_message and the call it makes
translate_text(cfg, text, source_lang, target_lang, o) ==
  IF translation_provider_effective(cfg) = "openai"
    THEN openai_translate(text, source_lang, target_lang, cfg.openai_client, o)
    ELSE libre_translate(text, source_lang, target_lang, o)

TranslateInit ==
  /\ events_received = 0
  /\ active_connections = << >>
  /\ user_connections = << >>
  /\ sock_ok = [c \in Conns |-> TRUE]
  /\ pc = [c \in Conns |-> "closed"]
  /\ current_user_id = [c \in Conns |-> None]
  /\ loc = [c \in Conns |-> NoLoc]
  /\ messages = << >>
  /\ ttfa_metrics = << >>
  /\ translation_times = 0
  /\ tasks = {}
  /\ wire = [c \in Conns |-> << >>]
  /\ settings \in Settings
  /\ last_call = NoCall
  /\ stt = NoStt
  /\ tts = NoTts
  /\ tts_calls = NoTtsCalls
  /\ metrics_service = MetricsService

\* one call of the selected service; the engine behaves as outcome o says
CallTranslate ==
  /\ \E text \in TranslateTexts, source_lang \in TranslateLangs, target_lang \in TranslateLangs, o \in ProviderOutcomes :
       last_call' = [op |-> "translate", text |-> text, source_lang |-> source_lang, target_lang |-> target_lang, outcome |-> o,
                     result |-> translate_text(settings, text, source_lang, target_lang, o)]
  /\ UNCHANGED <<events_received, mgrVars, sock_ok, pc, current_user_id, loc, storeVars, metricVars, tasks, wire, settings, stt, tts, tts_calls, metrics_service>>

TranslateNext == CallTranslate

TranslateSpec == TranslateInit /\ [][TranslateNext]_vars

\* ----------------------------- two joined sessions exchanging several notes
MaxOrderedNotes == 2

\* the notes user A submits on its connection
OrderEvents == {VoiceNote("conv1", "A", "en", "hola", TRUE), VoiceNote("conv1", "A", "es", "hola", TRUE)}

\* both connections are accepted, c1 has joined as A and c2 as B, both broadcasts are over
OrderInit ==
  /\ events_received = 0
  /\ active_connections = <<"c1", "c2">>
  /\ user_connections = <<<<"A", "c1">>, <<"B", "c2">>>>
  /\ sock_ok = [c \in Conns |-> TRUE]
  /\ pc = [c \in Conns |-> "recv"]
  /\ current_user_id = [c \in Conns |-> IF c = "c1" THEN Some("A") ELSE Some("B")]
  /\ loc = [c \in Conns |-> NoLoc]
  /\ messages = << >>
  /\ ttfa_metrics = << >>
  /\ translation_times = 0
  /\ tasks = {}
  /\ wire = [c \in Conns |-> << >>]
  /\ settings \in Settings
  /\ last_call = NoCall
  /\ stt = NoStt
  /\ tts = NoTts
  /\ tts_calls = NoTtsCalls
  /\ metrics_service = MetricsService

OrderNext ==
  \/ \E c \in NoteConns, ev \in OrderEvents : RecvVoiceNoteUpTo(c, ev, MaxOrderedNotes)
  \/ \E c \in Conns : VN_Create(c)
  \/ \E c \in Conns : VN_StartTTFA(c)
  \/ \E c \in Conns : VN_Translate(c)
  \/ \E c \in Conns : VN_Fresh(c)
  \/ \E c \in Conns : VN_SendRcptDone(c)
  \/ \E c \in Conns : VN_SendSndrDone(c)
  \/ \E c \in Conns : Return(c)
  \/ \E t \in tasks : RunTranslationTask(t)
  \/ \E t \in tasks : RunStatusTask(t)

OrderSpec == OrderInit /\ [][OrderNext]_vars

\* ================================================================ properties
\* a message view with a play_now block for message m was written to some session
RecipientWritten(m) ==
  \E k \in Conns : \E i \in 1..Len(wire[k]) :
    /\ wire[k][i].payload.type = "message"
    /\ wire[k][i].payload.message.id = m
    /\ wire[k][i].payload.play_now # None

\* the sender is not one of the two participants, or the conversation is unknown
NotInConversation(ev) ==
  \/ ev.conversation_id \notin DOMAIN Conversations
  \/ ev.sender_id \notin {Conversations[ev.conversation_id].user_a_id, Conversations[ev.conversation_id].user_b_id}

MessageEntries(k) == {i \in 1..Len(wire[k]) : wire[k][i].payload.type = "message"}

\* C1 (amended): the payload passed to send_to_user for the recipient carries a
\* play_now block and is addressed to the other participant, the payload passed
\* for the sender carries none; a written payload with a play_now block is never
\* addressed to the note's sender, and one addressed to the sender carries none.
C1_PlayNowAsymmetry ==
  /\ \A c \in Conns : \A x \in loc[c].calls :
       /\ x.role = "recipient" => (x.payload.play_now # None /\ x.user_id # x.payload.message.sender_id)
       /\ x.role = "sender" => (x.payload.play_now = None /\ x.user_id = x.payload.message.sender_id)
  /\ \A k \in Conns : \A i \in MessageEntries(k) :
       /\ wire[k][i].payload.play_now # None => wire[k][i].to_user # wire[k][i].payload.message.sender_id
       /\ wire[k][i].to_user = wire[k][i].payload.message.sender_id => wire[k][i].payload.play_now = None

\* both views of one note were written, to two different sessions
C1_Witness ==
  \E k1 \in Conns, k2 \in Conns :
    /\ k1 # k2
    /\ \E i \in MessageEntries(k1) : wire[k1][i].payload.play_now # None
    /\ \E i \in MessageEntries(k2) : wire[k2][i].payload.play_now = None

\* C1 as stated: the session the sender is bound to when a payload is written
\* never receives a payload with a play_now block for the sender's own note.
C1_SenderConnectionNeverPlays ==
  \A k \in Conns : \A i \in MessageEntries(k) :
    wire[k][i].payload.play_now # None => wire[k][i].sender_bound # k

\* C2: the step that takes a voice note whose conversation is unknown or whose
\* sender is not a participant ends in the rejection, has created no Message,
\* started no TTFA metric, called no translation provider, scheduled nothing and
\* dispatched no view.
C2_RejectedBeforeSideEffects ==
  [][\A c \in Conns :
       (loc'[c].ev # NoEvent /\ NotInConversation(loc'[c].ev)) =>
         /\ pc'[c] = "vn_rejected"
         /\ loc'[c].effects = {} /\ loc'[c].calls = {}
         /\ pc[c] # "vn_rejected" => (messages' = messages /\ ttfa_metrics' = ttfa_metrics /\ translation_times' = translation_times /\ tasks' = tasks /\ wire' = wire)]_vars

\* a foreign sender is rejected while the table already holds a message
C2_Witness ==
  \E c \in Conns : pc[c] = "vn_rejected" /\ loc[c].ev.sender_id = "C" /\ Len(messages) = 1

\* C3 as stated: when the handler returns from a rejected voice note, an error
\* payload has been written to the submitting connection since the event arrived.
C3_RejectionReported ==
  [][\A c \in Conns :
       (pc[c] = "vn_rejected" /\ pc'[c] = "recv") =>
         \E i \in (loc[c].wire_mark + 1)..Len(wire[c]) : wire[c][i].payload.type = "error"]_vars

\* C4: with a working store and every ready task run, a voice note whose
\* send_to_user to the recipient returned true eventually has durable status
\* DELIVERED, and a message whose recipient view was never written stays SENT.
C4_DeliveredIffSent ==
  /\ \A m \in 1..MaxMessages :
       (\E c \in Conns : pc[c] = "vn_done" /\ loc[c].mid = m /\ loc[c].sent_to_recipient) ~> (Len(messages) >= m /\ messages[m].status = "delivered")
  /\ [](\A c \in Conns : (pc[c] = "vn_done" /\ ~loc[c].sent_to_recipient) => ~RecipientWritten(loc[c].mid))
  /\ [](\A m \in 1..Len(messages) : ~RecipientWritten(m) => messages[m].status = "sent")

C4_Witness ==
  /\ Len(messages) >= 1
  /\ messages[1].status = "delivered"
  /\ RecipientWritten(1)
  /\ tasks = {}

\* C5: with a working store, whatever the translation provider does, a voice
\* note that passed validation and was stored reaches the end of the handler
\* having called send_to_user for the recipient and for the sender.
C5_TranslationNeverBlocks ==
  \A c \in Conns : \A m \in 1..MaxMessages :
    (pc[c] = "vn_ttfa" /\ loc[c].mid = m) ~> (pc[c] = "vn_done" /\ loc[c].mid = m /\ {x.role : x \in loc[c].calls} = {"recipient", "sender"})

C5_Witness ==
  \E c \in Conns :
    /\ pc[c] = "vn_done"
    /\ {x.role : x \in loc[c].calls} = {"recipient", "sender"}
    /\ loc[c].translated_text = Some(fallback_translate("hola", "en"))

StatusRank(status) == IF status = "sent" THEN 1 ELSE IF status = "delivered" THEN 2 ELSE IF status = "played" THEN 3 ELSE 0

\* C6: in the relay with its background tasks no step moves the durable status
\* of a Message backward in the order SENT, DELIVERED, PLAYED.
C6_StatusNeverBackward ==
  [][\A m \in 1..Len(messages) :
       (StatusRank(messages[m].status) > 0 /\ StatusRank(messages'[m].status) > 0) => StatusRank(messages'[m].status) >= StatusRank(messages[m].status)]_vars

\* a delivered message whose background tasks have all run
C6_Witness ==
  /\ Len(messages) >= 1
  /\ messages[1].status = "delivered"
  /\ messages[1].text_translated # None
  /\ tasks = {}
  /\ \A c \in Conns : pc[c] # "vn_done"

IllegalEdge(from, to) ==
  <<from, to>> \in {<<"played", "sent">>, <<"played", "delivered">>, <<"delivered", "sent">>, <<"played", "failed">>}

\* C7 as stated: an update_status call along an illegal edge of the transition
\* table is rejected and leaves the stored status unchanged.
C7_IllegalEdgeRejected ==
  (last_call.op = "update_status" /\ last_call.before # None /\ IllegalEdge(last_call.before[1].status, last_call.status)) =>
    (last_call.result # "message" /\ messages[last_call.message_id].status = last_call.before[1].status)

\* C8: an update_status call that repeats the call before it (same id, status
\* and ttfa_ms) leaves the row as the first call left it and returns what the
\* first call returned (the row, or None for an unknown id) rather than an error.
C8_UpdateStatusIdempotent ==
  (last_call.op = "update_status" /\ last_call.repeat) =>
    /\ RowOf(messages, last_call.message_id) = last_call.before
    /\ last_call.result = last_call.prev_result
    /\ last_call.result = (IF last_call.before # None THEN "message" ELSE "none")

C8_Witness ==
  /\ last_call.op = "update_status"
  /\ last_call.repeat
  /\ last_call.status = "delivered"
  /\ last_call.result = "message"
  /\ messages[last_call.message_id].status = "delivered"

\* C9 as stated: send_to_user returns true only when the write succeeded; when
\* the write fails the session leaves the live set, the user's binding no longer
\* points to it, and the call returns false.
C9_SendToUserFailure ==
  [][\A c \in Conns :
       /\ (pc[c] = "vn_send_rcpt" /\ pc'[c] # "vn_send_rcpt") =>
            /\ loc'[c].sent_to_recipient = WriteOk(loc[c].target)
            /\ ~WriteOk(loc[c].target) => (~InActive(active_connections', loc[c].target) /\ get_connection(user_connections', loc[c].recipient_id) # loc[c].target)
       /\ (pc[c] = "vn_send_sndr" /\ pc'[c] # "vn_send_sndr") =>
            (~WriteOk(loc[c].target) => (~InActive(active_connections', loc[c].target) /\ get_connection(user_connections', loc[c].ev.sender_id) # loc[c].target))]_vars

\* C10 as stated: in every state of the manager, disconnect(k) leaves k out of
\* the live sessions and leaves no binding to k; for an id that is neither live
\* nor bound it changes nothing.
C10_DisconnectRemovesAll ==
  \A k \in Conns \cup {"unknown"} :
    LET ac == disconnect_active(active_connections, k)
        uc == disconnect_users(user_connections, k)
    IN /\ ~InActive(ac, k)
       /\ BoundUsers(uc, k) = {}
       /\ (~InActive(active_connections, k) /\ BoundUsers(user_connections, k) = {}) => (ac = active_connections /\ uc = user_connections)

Range(s) == {s[i] : i \in 1..Len(s)}

\* C11: in broadcast_presence a failed write removes that session and no other
\* from the live set, and the loop goes on: while it runs, every session of its
\* snapshot it has passed and that is still live was sent the payload, and it
\* ends only when no session of the snapshot that is still live is left unsent.
C11_BroadcastIsolation ==
  [][\A c \in Conns :
       /\ pc'[c] = "bc" =>
            \A k \in Range(loc'[c].bc_start) \ Range(loc'[c].bc_todo) : InActive(active_connections', k) => k \in loc'[c].bc_sent
       /\ (pc[c] = "bc" /\ loc'[c] # loc[c]) =>
            LET k == Head(loc[c].bc_todo)
            IN /\ ~WriteOk(k) => (~InActive(active_connections', k) /\ \A j \in Conns \ {k} : InActive(active_connections', j) = InActive(active_connections, j))
               /\ WriteOk(k) => active_connections' = active_connections
               /\ pc'[c] # "bc" => \A j \in Range(Tail(loc[c].bc_todo)) : ~InActive(active_connections', j)]_vars

\* a broadcast that lost one session to a failed write and still has a live one to serve
C11_Witness ==
  \E c \in Conns : pc[c] = "bc" /\ loc[c].bc_failed # {} /\ loc[c].bc_todo # << >> /\ InActive(active_connections, Head(loc[c].bc_todo))

\* C12 (amended): each user has at most one binding; a join on connection c
\* binds the user to c, changes no other binding, removes no session, writes no
\* message and ends no other connection's loop; every send_to_user that starts
\* afterwards resolves the user to the connection of the latest binding.
C12_LastJoinWins ==
  [][/\ \A i \in 1..Len(user_connections'), j \in 1..Len(user_connections') : user_connections'[i][1] = user_connections'[j][1] => i = j
     /\ \A c \in Conns :
          /\ (pc[c] = "recv" /\ current_user_id'[c] # None /\ events_received' # events_received /\ loc'[c].bc_then = "recv") =>
               /\ get_connection(user_connections', current_user_id'[c][1]) = c
               /\ \A u \in Users \ {current_user_id'[c][1]} : get_connection(user_connections', u) = get_connection(user_connections, u)
               /\ active_connections' = active_connections
               /\ wire' = wire
               /\ \A k \in Conns \ {c} : pc'[k] = pc[k]
          /\ (pc'[c] = "vn_send_rcpt" /\ pc[c] # "vn_send_rcpt") => loc'[c].target = get_connection(user_connections', loc'[c].recipient_id)
          /\ (pc'[c] = "vn_send_sndr" /\ pc[c] # "vn_send_sndr") => loc'[c].target = get_connection(user_connections', loc'[c].ev.sender_id)
          /\ (pc[c] \in {"vn_send_rcpt", "vn_send_sndr"} /\ pc'[c] # pc[c]) => \A k \in Conns \ {loc[c].target} : wire'[k] = wire[k]]_vars

\* a user bound to one connection joined on another; the later binding is the one in force
C12_Witness ==
  \E c \in Conns :
    /\ pc[c] = "bc" /\ loc[c].bc_superseded # NoConn
    /\ get_connection(user_connections, current_user_id[c][1]) = c
    /\ InActive(active_connections, loc[c].bc_superseded)

\* C12 as stated: nothing is sent to the superseded connection as a consequence
\* of the second join.
C12_NothingSentToSuperseded ==
  \A c \in Conns : (pc[c] = "bc" /\ loc[c].bc_superseded # NoConn) => loc[c].bc_superseded \notin loc[c].bc_sent

Unbound(uc, user_id) == \A i \in 1..Len(uc) : uc[i][1] # user_id

\* C13: send_to_user for a recipient that has no presence binding returns false
\* at once: the step that makes the call writes to no session, leaves the live
\* set and the presence map as they are, and goes on to the send for the sender.
C13_UnboundSendNoEffect ==
  [][\A c \in Conns :
       (pc[c] = "vn_fresh" /\ pc'[c] \notin {"vn_fresh", "vn_failed"} /\ Unbound(user_connections, loc[c].recipient_id)) =>
         /\ pc'[c] \in {"vn_send_sndr", "vn_done"}
         /\ loc'[c].sent_to_recipient = FALSE
         /\ active_connections' = active_connections
         /\ user_connections' = user_connections
         /\ wire' = wire]_vars

\* the relay finished a note whose recipient was never bound while another user was
C13_Witness ==
  \E c \in Conns :
    /\ pc[c] = "vn_done" /\ ~loc[c].sent_to_recipient
    /\ Unbound(user_connections, loc[c].recipient_id)
    /\ user_connections # << >>
    /\ \E x \in loc[c].calls : x.role = "recipient"

VoiceNoteStates == {"vn_create", "vn_ttfa", "vn_translate", "vn_fresh", "vn_send_rcpt", "vn_send_sndr", "vn_rejected", "vn_failed", "vn_done"}

\* C14: no step of the handling of a voice note ends the connection's loop: a
\* voice-note event is taken into the handler, the handler moves only between
\* its own steps, and from a rejection, a failure or its normal end its only
\* way on is back to the loop's receive.
C14_FailingNoteKeepsLoop ==
  [][\A c \in Conns :
       /\ (pc[c] = "recv" /\ loc'[c].ev # NoEvent) => pc'[c] \in {"vn_rejected", "vn_create"}
       /\ pc[c] \in VoiceNoteStates => pc'[c] \in VoiceNoteStates \cup {"recv"}
       /\ (pc[c] \in {"vn_rejected", "vn_failed", "vn_done"} /\ pc'[c] # pc[c]) => (pc'[c] = "recv" /\ loc'[c] = NoLoc)]_vars

\* a store error after the Message was created, caught by the handler
C14_Witness ==
  \E c \in Conns : pc[c] = "vn_failed" /\ "create" \in loc[c].effects /\ InActive(active_connections, c)

\* C15 as stated: whichever provider is effective, a handler whose step invokes
\* the translation provider suspends with the call pending (so that the other
\* connections' loops can run meanwhile) instead of finishing the call within
\* the step, during which nothing else on the event loop runs.
C15_TranslationYields ==
  [][\A c \in Conns :
       (pc[c] = "vn_ttfa" /\ "translate" \in loc'[c].effects) => pc'[c] = "vn_translate"]_vars

\* C16: as soon as a call of the chain returns a usable result (no error, text
\* not blank after trimming), the request is answered with that result's text
\* and language under the label of the provider that was called, and no further
\* provider (another engine or the mock) is invoked.
C16_UsableResultEndsChain ==
  \A i \in 1..Len(stt.results) :
    ~unusable(stt.results[i]) =>
      /\ Len(stt.invoked) = i
      /\ stt.pc = "done"
      /\ stt.response # None
      /\ stt.response[1].status_code = 200
      /\ stt.response[1].text = stt.results[i].text
      /\ stt.response[1].language = stt.results[i].language
      /\ stt.response[1].provider = stt.invoked[i].engine

\* the primary engine gave nothing usable and the fallback engine answered
C16_Witness ==
  /\ stt.pc = "done"
  /\ Len(stt.results) >= 2
  /\ unusable(stt.results[1])
  /\ ~unusable(stt.results[Len(stt.results)])
  /\ stt.invoked[Len(stt.invoked)].engine \notin {"mock", stt.invoked[1].engine}
  /\ stt.response[1].provider = stt.invoked[Len(stt.invoked)].engine

STTEngines == {"elevenlabs", "openai", "whisper"}

EnginesInvoked == {stt.invoked[i].engine : i \in 1..Len(stt.invoked)} \ {"mock"}

\* C17: with fallback enabled the mock is asked only after the primary engine
\* and both other engines have been tried.
C17_AllEnginesBeforeMock ==
  (settings.stt_fallback_enabled /\ stt.stage = "mock") => EnginesInvoked = STTEngines

\* every call of a real engine made so far came back with an error or a blank text
AllEnginesUnusable ==
  /\ EnginesInvoked # {}
  /\ \A i \in 1..Len(stt.results) : stt.invoked[i].engine # "mock" => unusable(stt.results[i])

\* C18: with fallback enabled, a request whose real engines all returned an
\* error or a blank text is answered with status 200 by the mock's text, which
\* is not blank, with provider "mock" and no error.
C18_MockAnswersWhenAllFail ==
  (stt.pc = "done" /\ settings.stt_fallback_enabled /\ AllEnginesUnusable) =>
    /\ stt.response[1].status_code = 200
    /\ stt.response[1].provider = "mock"
    /\ stt.response[1].error = None
    /\ Strip(stt.response[1].text) # ""
    /\ stt.invoked[Len(stt.invoked)].engine = "mock"
    /\ stt.response[1].text = stt.results[Len(stt.results)].text

\* both engines of the chain failed for a hint the mock has no texts for
C18_Witness ==
  /\ stt.pc = "done"
  /\ settings.stt_fallback_enabled
  /\ AllEnginesUnusable
  /\ Cardinality(EnginesInvoked) = 2
  /\ stt.language = Some("de")
  /\ stt.response[1].provider = "mock"

\* C19: with stt_fallback_enabled false, once the primary engine has been
\* called no other engine and no mock is ever called, and when the primary's
\* result (after the retry without language hint, if one was made) is an error
\* or a blank text the request is answered with an error result: empty text, an
\* error, and the primary as provider.
C19_NoFallbackWhenDisabled ==
  (~settings.stt_fallback_enabled /\ Len(stt.invoked) >= 1 /\ stt.invoked[1].engine # "mock") =>
    /\ \A i \in 1..Len(stt.invoked) : stt.invoked[i].engine = engine_of(settings.stt_provider)
    /\ (Len(stt.results) = Len(stt.invoked) /\ unusable(stt.results[Len(stt.results)])) =>
         /\ stt.pc = "done"
         /\ stt.response[1].status_code = 200
         /\ stt.response[1].text = ""
         /\ stt.response[1].error # None
         /\ stt.response[1].provider = settings.stt_provider

\* fallback is disabled and the primary returned a blank text twice
C19_Witness ==
  /\ ~settings.stt_fallback_enabled
  /\ stt.pc = "done"
  /\ Len(stt.results) = 2
  /\ stt.results[2].error = None
  /\ stt.results[2].text = ""
  /\ stt.response[1].error = Some("No speech detected")
  /\ stt.response[1].provider = settings.stt_provider

\* C20: an upload whose body was read and is empty is answered with status 400,
\* an upload larger than max_size with status 413, in both cases without any
\* service, the mock included, having been called; an upload of 1..max_size
\* bytes gets neither answer.
C20_EmptyAndOversizeRejected ==
  /\ (stt.pc # "idle" /\ stt.size > max_size) =>
       /\ stt.pc = "done"
       /\ stt.response[1].status_code = 413
       /\ stt.invoked = << >>
  /\ (stt.pc # "idle" /\ stt.size = 0 /\ stt.stage # "last_resort") =>
       /\ stt.invoked = << >>
       /\ stt.pc = "done" => stt.response[1].status_code = 400
  /\ (stt.pc = "done" /\ stt.size \in 1..max_size) => stt.response[1].status_code = 200

\* an upload one byte over the limit has been refused
C20_Witness ==
  /\ stt.pc = "done"
  /\ stt.size = max_size + 1
  /\ stt.response[1].status_code = 413
  /\ stt.invoked = << >>

\* C21: every answered synthesis request carries a result object, never an
\* error: either audio, or needs_browser_fallback set.
C21_SynthesizeNeverErrors ==
  tts.pc = "done" =>
    /\ tts.response[1].status_code = 200
    /\ (tts.response[1].audio_base64 # "" \/ tts.response[1].needs_browser_fallback)

\* C22: two resolver calls in sequence for the same sender_id, both without an
\* explicit gender, return the same gender.
C22_GenderPersists ==
  \A i, j \in 1..Len(tts.gender_log) :
    (/\ i < j
     /\ tts.gender_log[i].sender_id # None
     /\ tts.gender_log[i].sender_id = tts.gender_log[j].sender_id
     /\ tts.gender_log[i].sender_gender = None
     /\ tts.gender_log[j].sender_gender = None)
    => tts.gender_log[i].gender = tts.gender_log[j].gender

\* C23: a call with source_lang = target_lang returns the source text exactly
\* and does not invoke the external engine, whichever provider is effective.
C23_SameLanguageSkipsProvider ==
  (last_call.op = "translate" /\ last_call.source_lang = last_call.target_lang) =>
    /\ last_call.result.text = Plain(last_call.text)
    /\ ~last_call.result.called

\* C24: when the engine that was called raises or returns an empty result, the
\* call returns the original text unchanged.
C24_FailureReturnsOriginal ==
  (last_call.op = "translate" /\ last_call.result.called /\ last_call.outcome \in {"raise", "empty"}) =>
    /\ ~last_call.result.raised
    /\ last_call.result.text = Plain(last_call.text)

\* C25: in every reachable state of the manager each presence binding refers
\* to a connection that is in the live session set.
C25_BindingsAreLive ==
  \A i \in 1..Len(user_connections) : InActive(active_connections, user_connections[i][2])

\* the order of one note's steps as far as a state shows it
StepOrderState(c) ==
  /\ "translate" \in loc[c].effects => ("create" \in loc[c].effects /\ loc[c].mid \in 1..Len(messages))
  /\ loc[c].calls # {} =>
       /\ loc[c].translated_text # None
       /\ loc[c].mid \in DOMAIN ttfa_metrics
       /\ ttfa_metrics[loc[c].mid].ws_sent_at # None
  /\ (\E x \in loc[c].calls : x.role = "sender") => (\E x \in loc[c].calls : x.role = "recipient")

\* C26: within one voice note the Message is created (status SENT, no
\* translated text) before the translation provider is called, translation has
\* completed and ws_sent_at is recorded before send_to_user is called for the
\* recipient, the recipient is dispatched before the sender, and a status task
\* is scheduled only by a handler whose recipient dispatch has returned.
C26_StepOrder ==
  [][/\ \A c \in Conns : StepOrderState(c)'
     /\ \A c \in Conns : (pc[c] = "vn_create" /\ pc'[c] = "vn_ttfa") =>
          /\ messages'[loc'[c].mid].status = "sent"
          /\ messages'[loc'[c].mid].text_translated = None
          /\ "translate" \notin loc'[c].effects
          /\ loc'[c].translated_text = None
     /\ \A t \in tasks' \ tasks : t.kind = "status" =>
          \E c \in Conns :
            /\ pc[c] \in {"vn_fresh", "vn_send_rcpt", "vn_send_sndr"}
            /\ pc'[c] = "vn_done"
            /\ loc'[c].mid = t.message_id
            /\ \E x \in loc'[c].calls : x.role = "recipient"]_vars

\* a note went through every step and its DELIVERED task is scheduled
C26_Witness ==
  \E c \in Conns :
    /\ pc[c] = "vn_done"
    /\ {"create", "ttfa", "translate", "dispatch"} \subseteq loc[c].effects
    /\ loc[c].sent_to_recipient
    /\ [kind |-> "status", message_id |-> loc[c].mid, status |-> "delivered", text |-> None] \in tasks

\* the ids of the recipient views written to session k appear in increasing order
RecipientViewsInOrder(k) ==
  \A i, j \in MessageEntries(k) :
    (i < j /\ wire[k][i].payload.play_now # None /\ wire[k][j].payload.play_now # None) =>
      wire[k][i].payload.message.id < wire[k][j].payload.message.id

\* the sender view of message m was written to session k
SenderViewWritten(k, m) ==
  \E i \in MessageEntries(k) : wire[k][i].payload.message.id = m /\ wire[k][i].payload.play_now = None

\* C27: a connection reads its next event only when the handler of the previous
\* one has returned, so every note created so far has been through both
\* dispatches (here: written to the recipient's and to the sender's session),
\* and the recipient's session receives the notes in the order they were sent.
C27_OneAtATime ==
  [][/\ RecipientViewsInOrder("c2")'
     /\ \A c \in NoteConns : (events_received' # events_received /\ loc'[c].ev # NoEvent /\ pc'[c] # "recv") =>
          /\ pc[c] = "recv"
          /\ \A m \in 1..Len(messages) : RecipientWritten(m) /\ SenderViewWritten(c, m)]_vars

\* two notes of A were written to B's session, the first before the second
C27_Witness ==
  /\ Len(wire["c2"]) = 2
  /\ wire["c2"][1].payload.message.id = 1
  /\ wire["c2"][2].payload.message.id = 2
  /\ wire["c2"][1].payload.play_now # None
  /\ wire["c2"][2].payload.play_now # None

\* whatever is stored as text_translated of a row is the text its handler
\* holds and the text of every recipient view written for it
StoredTranslationAgrees ==
  \A m \in 1..Len(messages) : messages[m].text_translated # None =>
    /\ \A c \in Conns : (loc[c].mid = m /\ loc[c].translated_text # None) => messages[m].text_translated = loc[c].translated_text
    /\ \A k \in Conns : \A i \in MessageEntries(k) :
         (wire[k][i].payload.message.id = m /\ wire[k][i].payload.play_now # None) =>
           messages[m].text_translated = wire[k][i].payload.message.text_translated

\* C28: with a working store and fairly scheduled background tasks, once the
\* handler of message m holds the translated text, the stored row of m
\* eventually has a text_translated, and a stored text_translated always equals
\* the text the handler holds and the recipient view carries.
C28_TranslationPersisted ==
  /\ []StoredTranslationAgrees
  /\ \A m \in 1..MaxMessages :
       (\E c \in Conns : loc[c].mid = m /\ loc[c].translated_text # None)
         ~> (m \in 1..Len(messages) /\ messages[m].text_translated # None)

\* the write-back has run while the recipient dispatch is still in flight
C28_Witness ==
  \E c \in Conns :
    /\ pc[c] = "vn_send_rcpt"
    /\ loc[c].recipient_ws_response[1].message.text_translated = loc[c].translated_text
    /\ messages[loc[c].mid].text_translated = loc[c].translated_text

\* the handler of message m has ended (or has only its return left)
HandlerDone(m) == \A c \in Conns : loc[c].mid = m => pc[c] \in {"vn_done", "vn_failed"}

\* C29: a note whose handler ended without a recipient view having been
\* written is never written to the recipient afterwards, whatever joins
\* follow, and its stored status stays SENT.
C29_NoRedelivery ==
  [][\A m \in 1..Len(messages) :
       (HandlerDone(m) /\ ~RecipientWritten(m)) =>
         /\ ~RecipientWritten(m)'
         /\ messages'[m].status = "sent"]_vars

\* the recipient was not bound when the note was dispatched and has joined since
C29_Witness ==
  \E c, k \in Conns :
    /\ c # k
    /\ pc[c] = "vn_done"
    /\ "dispatch" \in loc[c].effects
    /\ ~loc[c].sent_to_recipient
    /\ ~RecipientWritten(loc[c].mid)
    /\ get_connection(user_connections, loc[c].recipient_id) = k
    /\ InActive(active_connections, k)
    /\ sock_ok[k]
    /\ pc[k] = "recv"

\* the status tasks a step adds for message m
NewStatusTasks(m) == {t \in tasks' \ tasks : t.kind = "status" /\ t.message_id = m}

\* C30: the handler that ends schedules exactly one status task, DELIVERED if
\* the recipient view was written (send_to_user for the recipient returned
\* true) and SENT otherwise, whether the sender view was written, its write
\* failed, or the sender had no live session.
C30_StatusFollowsRecipientOnly ==
  [][\A c \in Conns :
       (pc[c] # "vn_done" /\ pc'[c] = "vn_done") =>
         /\ loc'[c].sent_to_recipient = RecipientWritten(loc[c].mid)'
         /\ NewStatusTasks(loc'[c].mid) =
              {[kind |-> "status", message_id |-> loc'[c].mid, status |-> IF RecipientWritten(loc[c].mid)' THEN "delivered" ELSE "sent", text |-> None]}]_vars

\* DELIVERED is scheduled although no sender view was written
C30_Witness ==
  \E c \in Conns :
    /\ pc[c] = "vn_done"
    /\ loc[c].sent_to_recipient
    /\ RecipientWritten(loc[c].mid)
    /\ \A k \in Conns : ~SenderViewWritten(k, loc[c].mid)
    /\ [kind |-> "status", message_id |-> loc[c].mid, status |-> "delivered", text |-> None] \in tasks

\* the calls of the resolver that went to the store for sender u and have returned
StoreResolved(u) == {k \in TtsCallIds : tts_calls.call[k].gender_log # << >> /\ tts_calls.call[k].sender_id = Some(u) /\ clear_gender(tts_calls.call[k].sender_gender) = None}

\* C31: concurrent synthesize calls for one sender_id without a stored
\* assignment all return the same gender, and the stored tts_gender of a user
\* never changes once it has been written.
C31_AssignedOnce ==
  /\ [](\A u \in Users : \A j, k \in StoreResolved(u) : tts_calls.call[j].assigned = tts_calls.call[k].assigned)
  /\ [][\A u \in Users : tts_calls.users[u] # None => tts_calls'.users[u] = tts_calls.users[u]]_vars

\* the result a provider returns when it reports its failure instead of raising
ErrorResult(language) == [text |-> "", language |-> or_en(language), error |-> Some("exception")]

\* C32: when a provider call raises, the route continues as it does after an
\* unusable result of that call (same next service invoked, or the same error
\* response and no further call), and the caller never receives an exception.
C32_ExceptionLikeUnusable ==
  [][SttServiceRaises =>
       LET n == after_result(stt, settings.stt_fallback_enabled, ErrorResult(stt.invoked[Len(stt.invoked)].language))
       IN /\ stt'.pc = n.pc
          /\ stt'.invoked = n.invoked
          /\ stt'.pc = "done" => /\ stt'.response[1].status_code = 200
                                 /\ stt'.response[1].provider = n.response[1].provider
                                 /\ stt'.response[1].error # None]_vars

\* invocation i is the first call of its service in this request
FirstCall(i) == i = 1 \/ stt.invoked[i - 1].engine # stt.invoked[i].engine

\* C33: whenever the first result of a provider is not usable (an error, or
\* empty trimmed text), the next call is the same provider once more with the
\* language hint cleared, and no provider is called more than twice.
C33_UnusableFirstResultRetried ==
  /\ \A i \in 1..Len(stt.results) :
       (FirstCall(i) /\ stt.invoked[i].engine # "mock" /\ unusable(stt.results[i]))
         => /\ Len(stt.invoked) > i
            /\ stt.invoked[i + 1] = [engine |-> stt.invoked[i].engine, language |-> None]
  /\ \A e \in STTEngines : Cardinality({i \in 1..Len(stt.invoked) : stt.invoked[i].engine = e}) <= 2

\* the fields of a TTFA metric that the recorder stamps
MetricFields == {"client_sent_at", "server_received_at", "translation_completed_at", "ws_sent_at", "client_played_at", "ttfa_ms"}

\* C34: a field of a TTFA metric that has been set is never changed by a
\* later recorder call on the same message id; in particular a second played
\* acknowledgment leaves client_played_at and ttfa_ms as the first wrote them.
C34_FirstWriteWins ==
  [][\A m \in DOMAIN metrics_service.ttfa_metrics : \A f \in MetricFields :
       metrics_service.ttfa_metrics[m][f] # None
         => (m \in DOMAIN metrics_service'.ttfa_metrics /\ metrics_service'.ttfa_metrics[m][f] = metrics_service.ttfa_metrics[m][f])]_vars

\* message m has been handed back to the handler by create
Created(m) == \A c \in Conns : ~(pc[c] = "vn_ttfa" /\ loc[c].mid = m)

CompletedTtfas == LET set == SelectSeq(metrics_service.ttfa_metrics, LAMBDA metric : metric.ttfa_ms # None) IN sorted([i \in 1..Len(set) |-> set[i].ttfa_ms[1]])
CompletedTimes == sorted(metrics_service.translation_times)

\* the statistics st describe the ascending samples xs, each reported value being unit times a sample
DescribesExactly(st, xs, unit) ==
  IF xs = << >>
    THEN st = [count |-> 0, avg |-> 0, min |-> 0, max |-> 0, p95 |-> 0]
    ELSE /\ st.count = Len(xs)
         /\ st.min * unit = xs[1] /\ st.max * unit = xs[Len(xs)]
         /\ ((95 * Len(xs)) \div 100) < Len(xs)
         /\ st.p95 * unit = xs[((95 * Len(xs)) \div 100) + 1]
         /\ st.min <= st.p95 /\ st.p95 <= st.max

\* C36 as stated: both functions report count, the smallest and the largest
\* sample and the sample at index floor(0.95 * count) of the ascending sort,
\* and all zeros without samples.
C36_StatsAreTheSamples ==
  metrics_service.returned # None =>
    IF metrics_service.returned[1].op = "get_ttfa_stats"
      THEN DescribesExactly(metrics_service.returned[1].stats, CompletedTtfas, 1)
      ELSE DescribesExactly(metrics_service.returned[1].stats, CompletedTimes, 1000)

\* the same with each reported value being the sample rounded to `unit`
DescribesRounded(st, xs, unit) ==
  IF xs = << >>
    THEN st = [count |-> 0, avg |-> 0, min |-> 0, max |-> 0, p95 |-> 0]
    ELSE /\ st.count = Len(xs)
         /\ st.min = round_half_even(xs[1], unit) /\ st.max = round_half_even(xs[Len(xs)], unit)
         /\ ((95 * Len(xs)) \div 100) < Len(xs)
         /\ st.p95 = round_half_even(xs[((95 * Len(xs)) \div 100) + 1], unit)
         /\ st.min <= st.p95 /\ st.p95 <= st.max
         /\ \A k \in 1..Len(xs) : xs[1] <= xs[k] /\ xs[k] <= xs[Len(xs)]

\* C36: get_ttfa_stats reports count, the smallest and the largest sample and
\* the sample at index floor(0.95 * count) of the ascending sort;
\* get_translation_stats reports the same values rounded to thousandths of a
\* second; without samples every field is 0.
C36_StatsOverCompleted ==
  metrics_service.returned # None =>
    IF metrics_service.returned[1].op = "get_ttfa_stats"
      THEN DescribesRounded(metrics_service.returned[1].stats, CompletedTtfas, 1)
      ELSE DescribesRounded(metrics_service.returned[1].stats, CompletedTimes, 1000)

\* more than twenty samples, the largest of them once: the 95th percentile is below the maximum
C36_Witness ==
  /\ metrics_service.returned # None
  /\ metrics_service.returned[1].stats.count >= 20
  /\ metrics_service.returned[1].stats.p95 < metrics_service.returned[1].stats.max

\* user u joined on connection k and has since joined on another connection
Superseded(k, u) ==
  /\ current_user_id[k] = Some(u)
  /\ get_connection(user_connections, u) \notin {NoConn, k}

\* C37: a step that disconnects a connection (at handler exit or after a failed
\* write) on which a user joined before re-joining elsewhere leaves that
\* user's current binding, and the session it points to, as they were.
C37_SupersededDisconnectHarmless ==
  [][\A k \in Conns, u \in Users :
       (Superseded(k, u) /\ InActive(active_connections, k) /\ ~InActive(active_connections', k))
         => /\ get_connection(user_connections', u) = get_connection(user_connections, u)
            /\ InActive(active_connections, get_connection(user_connections, u))
                 => InActive(active_connections', get_connection(user_connections, u))]_vars

\* a broadcast has dropped a superseded connection after a failed write, and the user's new session is live
C37_Witness ==
  \E c \in Conns, k \in Conns, u \in Users :
    /\ pc[c] = "bc" /\ k \in loc[c].bc_failed
    /\ Superseded(k, u)
    /\ ~InActive(active_connections, k)
    /\ InActive(active_connections, get_connection(user_connections, u))

\* the payload alone, against the conversation table, decides that a note is taken
Accepted(ev) == ev.well_formed /\ ~NotInConversation(ev) /\ message_create_valid(ev)

\* the participant of the note's conversation that is not its sender
OtherParticipant(ev) ==
  IF Conversations[ev.conversation_id].user_a_id = ev.sender_id
    THEN Conversations[ev.conversation_id].user_b_id
    ELSE Conversations[ev.conversation_id].user_a_id

\* what the handler of a note holds is what the payload and the store give
OutcomeFromPayload ==
  \A c \in Conns : loc[c].ev # NoEvent =>
    LET ev == loc[c].ev
    IN /\ pc[c] = "vn_rejected" <=> ~Accepted(ev)
       /\ Accepted(ev) => loc[c].recipient_id = OtherParticipant(ev)
       /\ loc[c].mid # 0 =>
            /\ messages[loc[c].mid].sender_id = ev.sender_id
            /\ messages[loc[c].mid].conversation_id = ev.conversation_id
            /\ messages[loc[c].mid].text_source = ev.text_source
       /\ \A x \in loc[c].calls :
            /\ x.payload.message.id = loc[c].mid
            /\ x.payload.message.sender_id = ev.sender_id
            /\ x.user_id = IF x.role = "recipient" THEN OtherParticipant(ev) ELSE ev.sender_id
            /\ x.role = "recipient" => x.payload.play_now[1].sender_id = ev.sender_id

\* C38: whether a voice note is taken, the recipient chosen, the Message
\* created and the two views dispatched are determined by the payload, the
\* store and the presence map; neither the submitting connection nor the user
\* joined on it enters, so a note naming sender S is handled the same on a
\* connection joined as another user or not joined at all.
C38_OutcomeIgnoresSubmitter ==
  /\ []OutcomeFromPayload
  /\ [][\A c \in Conns :
         /\ (pc'[c] = "vn_send_rcpt" /\ pc[c] # "vn_send_rcpt")
              => loc'[c].target = get_connection(user_connections', OtherParticipant(loc'[c].ev))
         /\ (pc'[c] = "vn_send_sndr" /\ pc[c] # "vn_send_sndr")
              => loc'[c].target = get_connection(user_connections', loc'[c].ev.sender_id)]_vars

\* a note naming sender A, submitted on a connection joined as B, was created and delivered
C38_Witness ==
  \E c \in Conns :
    /\ pc[c] = "vn_done" /\ loc[c].ev.sender_id = "A"
    /\ current_user_id[c] = Some("B")
    /\ loc[c].mid # 0 /\ loc[c].sent_to_recipient

\* C39: in every response synthesize returns, needs_browser_fallback is true
\* exactly when audio_base64 is empty, and voice_used is set only when
\* needs_browser_fallback is false.
C39_FallbackIffNoAudio ==
  (tts.response # None /\ tts.response[1].status_code = 200) =>
    /\ tts.response[1].needs_browser_fallback <=> tts.response[1].audio_base64 = ""
    /\ tts.response[1].voice_used # None => ~tts.response[1].needs_browser_fallback

\* a service picked a voice and produced no audio: the fallback response names no voice
C39_Witness ==
  /\ tts.pc = "done" /\ tts.assigned # None
  /\ tts.response[1].needs_browser_fallback /\ tts.response[1].audio_base64 = "" /\ tts.response[1].voice_used = None

\* C40: with no voice list, the hardcoded voice _find_best_voice returns
\* follows the sender's effective gender: the female known-good id for female,
\* the male known-good id for male.
C40_FallbackVoiceFollowsGender ==
  (last_call.op = "_find_best_voice" /\ last_call.voices_cache = << >>) =>
    /\ last_call.sender_gender = Some("female") => last_call.result = "21m00Tcm4TlvDq8ikWAM"
    /\ last_call.sender_gender = Some("male") => last_call.result = "ErXwobaYiN019PkySvjV"

====
